---- MODULE Spec2Model ----
(***************************************************************************)
(* A model of the legal-rag backend: the vector store service and its      *)
(* retrieval (services/vector_store.py), the document endpoints            *)
(* (api/documents.py), the usage governor (utils/cost_tracker.py), the     *)
(* query endpoint (api/query.py) and the answer assembler                  *)
(* (services/llm_service.py).                                              *)
(*                                                                         *)
(* Scores are cosine similarities on an integer grid 0..MaxScore.  Money   *)
(* is counted in whole cost units.  Each subsystem has a specification of  *)
(* its own (SpecSearch, SpecDocs, SpecGov, SpecQuery, SpecRace, SpecAsm);  *)
(* a specification leaves the variables of the other subsystems alone.     *)
(***************************************************************************)
EXTENDS Integers, Sequences, FiniteSets, TLC

\* ------------------------------------------------------------------------
\* Bounds of the model
\* ------------------------------------------------------------------------
MaxScore == 2
MaxChunks == 3
MaxLimit == 2

\* Tenants and documents that occur in the model.
Users == {"u1", "u2"}
DocIds == {"d1", "d2"}
Scores == 0..MaxScore

Min(a, b) == IF a <= b THEN a ELSE b

\* The first n elements of a sequence: Python's s[:n] for n >= 0.
Take(s, n) == SubSeq(s, 1, Min(n, Len(s)))

\* ------------------------------------------------------------------------
\* The vector store: the points of the Qdrant collection.  A point is its
\* payload (add_chunks writes user_id and document_id into it) together
\* with its similarity to the query vector under consideration.
\* ------------------------------------------------------------------------
Payload == [user_id : Users, document_id : DocIds, score : Scores]
Stores == {s \in SUBSET Payload : Cardinality(s) <= MaxChunks}

\* document_ids: list[str] | None.  given = FALSE is None; the order and
\* the repetitions of the list do not matter to an OR filter.
DocFilters ==
    {[given |-> FALSE, ids |-> {}]} \cup {[given |-> TRUE, ids |-> S] : S \in SUBSET DocIds}

\* Python truthiness of document_ids: None and [] are falsy.
Truthy(document_ids) == document_ids.given /\ document_ids.ids # {}

NoShould == {<<"none", "none">>}

VARIABLES
    store,        \* the collection's points
    searchOut,    \* the call of VectorStoreService.search in progress
    docOut,       \* the request to a document endpoint in progress
    today,        \* the calendar day date.today() returns
    daily_usage,  \* CostTracker._daily_usage: day -> usage record
    gate,         \* what can_process_query has answered so far today
    govOut,       \* the last call of a CostTracker method
    ledger,       \* per day: the track_query calls made and what they passed
    query,        \* the execution of query_documents in progress
    threads,      \* the threads running track_query: position and locals
    heap,         \* the usage dicts those threads created
    slot,         \* which dict _daily_usage[today] refers to
    asmOut,       \* the last call of LLMService.generate_answer
    chunker,      \* the run of PDFProcessor._split_into_chunks in progress
    pdfRuns,      \* the calls of PDFProcessor.process_pdf made so far
    upload,       \* the execution of upload_document in progress
    queryRuns,    \* the query_documents coroutines on the event loop
    uploadRuns,   \* the upload_document coroutines on the event loop
    clock,        \* time.time(), in units of which SESSION_DURATION is a few
    sessions,     \* api/auth.py _sessions: token -> session
    logins,       \* per token: the login that issued it and a later logout
    authOut       \* the last call of an auth function

vars == <<store, searchOut, docOut, today, daily_usage, gate, govOut, ledger, query,
          threads, heap, slot, asmOut,
          chunker, pdfRuns, upload,
          queryRuns, uploadRuns, clock, sessions, logins, authOut>>

storeSide == <<store, searchOut, docOut>>
govSide == <<today, daily_usage, gate, govOut, ledger>>
raceSide == <<threads, heap, slot>>
pdfSide == <<chunker, pdfRuns, upload>>
loopSide == <<queryRuns, uploadRuns>>
authSide == <<clock, sessions, logins, authOut>>

\* qdrant Filter(must=..., should=...): every must condition and, when
\* should is given, at least one should condition.  A condition is a
\* pair <<key, value>>: FieldCondition(key, MatchValue(value)).
Matches(p, f) ==
    /\ \A c \in f.must : p[c[1]] = c[2]
    /\ (f.should = NoShould \/ \E c \in f.should : p[c[1]] = c[2])

\* All orderings of a set of points by non-increasing score.
RECURSIVE Ranked(_)
Ranked(S) ==
    IF S = {} THEN {<<>>}
    ELSE UNION { { <<x>> \o t : t \in Ranked(S \ {x}) } :
                 x \in {y \in S : \A z \in S : y.score >= z.score} }

\* client.query_points(query, limit=k, query_filter=f): the k nearest
\* points that match f, nearest first; ties in an order of the store's.
QueryPoints(s, f, k) ==
    { Take(r, k) : r \in Ranked({p \in s : Matches(p, f)}) }

\* must_conditions of search: always the user_id condition.
MustConditionsNoUser(user_id) == {}
MustConditions(user_id) == {<<"user_id", user_id>>}

\* should_conditions of search: one condition per listed document id.
ShouldConditionsNone(document_ids) == NoShould
ShouldConditions(document_ids) ==
    IF Truthy(document_ids)
    THEN {<<"document_id", d>> : d \in document_ids.ids}
    ELSE NoShould

SearchFilter(user_id, document_ids) ==
    [must |-> MustConditions(user_id), should |-> ShouldConditions(document_ids)]

\* limit * 2: "Get extra to filter".
FetchLimit(limit) == limit * 2

\* The list comprehension of search: the hits with hit.score >= min_score.
ScoreFilterNone(hits, min_score) == hits
ScoreFilter(hits, min_score) == SelectSeq(hits, LAMBDA h : h.score >= min_score)

\* filtered[:limit]
TruncateOneMore(filtered, limit) == Take(filtered, limit + 1)
Truncate(filtered, limit) == Take(filtered, limit)

\* VectorStoreService.search: the result lists it may return.
Search(s, user_id, limit, document_ids, min_score) ==
    { Truncate(ScoreFilter(hits, min_score), limit) :
        hits \in QueryPoints(s, SearchFilter(user_id, document_ids), FetchLimit(limit)) }

NoSearch ==
    [called |-> FALSE, user_id |-> "u1", limit |-> 0,
     document_ids |-> [given |-> FALSE, ids |-> {}], min_score |-> 0, results |-> <<>>]

\* One call of search by a caller; the caller then takes the result
\* (SearchReturn) before the next call is modelled.
DoSearch ==
    /\ ~searchOut.called
    /\ \E user_id \in Users, limit \in 0..MaxLimit, document_ids \in DocFilters,
          min_score \in Scores :
         \E res \in Search(store, user_id, limit, document_ids, min_score) :
            searchOut' = [called |-> TRUE, user_id |-> user_id, limit |-> limit,
                          document_ids |-> document_ids, min_score |-> min_score,
                          results |-> res]
    /\ UNCHANGED <<store, docOut, govSide, query, raceSide, asmOut, pdfSide, loopSide, authSide>>

SearchReturn ==
    /\ searchOut.called
    /\ searchOut' = NoSearch
    /\ UNCHANGED <<store, docOut, govSide, query, raceSide, asmOut, pdfSide, loopSide, authSide>>

\* ------------------------------------------------------------------------
\* C1..C4: retrieval
\* ------------------------------------------------------------------------

\* The points of the requesting tenant that the document filter admits.
InScope(so) ==
    {p \in store : /\ p.user_id = so.user_id
                   /\ (Truthy(so.document_ids) => p.document_id \in so.document_ids.ids)}

\* The in-scope points that reach min_score.
Candidates(so) == {p \in InScope(so) : p.score >= so.min_score}

ResultSet(so) == {so.results[i] : i \in 1..Len(so.results)}

\* C1: every result of search carries the user_id of the requesting
\* tenant, whatever the store holds and whatever limit, min_score and
\* document_ids (absent, empty or not) were given.
C1_TenantOnly ==
    searchOut.called =>
        \A i \in 1..Len(searchOut.results) : searchOut.results[i].user_id = searchOut.user_id

\* A search that returned something although a point of another tenant,
\* admitted by the document filter and at or above min_score, is stored.
C1_Witness ==
    /\ searchOut.called
    /\ searchOut.results # <<>>
    /\ \E p \in store :
         /\ p.user_id # searchOut.user_id
         /\ p.score >= searchOut.min_score
         /\ (Truthy(searchOut.document_ids) => p.document_id \in searchOut.document_ids.ids)
         /\ \A i \in 1..Len(searchOut.results) : p.score > searchOut.results[i].score

\* C3: no result of search has a score strictly below min_score.
C3_MinScore ==
    searchOut.called =>
        \A i \in 1..Len(searchOut.results) : ~(searchOut.results[i].score < searchOut.min_score)

\* A search that returned something while the store held an in-scope point
\* below min_score and fewer results than limit: the point was fetched and
\* dropped by the threshold.
C3_Witness ==
    /\ searchOut.called
    /\ searchOut.results # <<>>
    /\ Len(searchOut.results) < searchOut.limit
    /\ \E p \in InScope(searchOut) : p.score < searchOut.min_score

\* C4: search(limit = L) returns at most L results in non-increasing score
\* order; they are distinct in-scope points at or above min_score, none of
\* the points left out scores higher than a returned one, and the result is
\* shorter than L only when fewer than L in-scope points reach min_score.
C4_TopL ==
    searchOut.called =>
        LET res == searchOut.results
            cand == Candidates(searchOut)
        IN  /\ Len(res) <= searchOut.limit
            /\ \A i \in 1..Len(res) : \A j \in i..Len(res) : res[i].score >= res[j].score
            /\ \A i \in 1..Len(res) : \A j \in 1..Len(res) : res[i] = res[j] => i = j
            /\ ResultSet(searchOut) \subseteq cand
            /\ \A c \in cand \ ResultSet(searchOut) :
                 \A i \in 1..Len(res) : res[i].score >= c.score
            /\ Len(res) = Min(searchOut.limit, Cardinality(cand))

\* A full result although more in-scope points than the 2*L fetched were
\* stored and one of them was below min_score.
C4_Witness ==
    /\ searchOut.called
    /\ searchOut.limit >= 1
    /\ Len(searchOut.results) = searchOut.limit
    /\ Cardinality(InScope(searchOut)) > 2 * searchOut.limit
    /\ \E p \in InScope(searchOut) : p.score < searchOut.min_score

\* The points of the requesting tenant at or above min_score, of any
\* document.
TenantCandidates(so) == {p \in store : p.user_id = so.user_id /\ p.score >= so.min_score}

\* C19: with a non-empty document_ids list every result of search has a
\* listed document_id and the requesting tenant's user_id; with document_ids
\* absent or empty the results are the requesting tenant's points of any
\* document: all of its points at or above min_score compete for the limit
\* places, and no other tenant's point is returned.
C19_DocumentFilter ==
    searchOut.called =>
        IF Truthy(searchOut.document_ids)
        THEN \A i \in 1..Len(searchOut.results) :
                /\ searchOut.results[i].document_id \in searchOut.document_ids.ids
                /\ searchOut.results[i].user_id = searchOut.user_id
        ELSE /\ ResultSet(searchOut) \subseteq TenantCandidates(searchOut)
             /\ Len(searchOut.results) =
                    Min(searchOut.limit, Cardinality(TenantCandidates(searchOut)))

\* A search restricted to listed documents that returned something while
\* the tenant's best point belongs to a document that is not listed.
C19_Witness ==
    /\ searchOut.called
    /\ Truthy(searchOut.document_ids)
    /\ searchOut.results # <<>>
    /\ \E p \in TenantCandidates(searchOut) :
         /\ p.document_id \notin searchOut.document_ids.ids
         /\ \A i \in 1..Len(searchOut.results) : p.score > searchOut.results[i].score

\* ------------------------------------------------------------------------
\* Document operations of the store (vector_store.py) and the document
\* endpoints (api/documents.py).  The settings are read from the
\* environment (config.py); the model runs a small configuration.
\* ------------------------------------------------------------------------
MaxDocuments == 2

\* user_id: str | None = None
NoUser == "none"

\* The must conditions of get_document_chunks: the document_id and, when
\* user_id is truthy, the user_id.
DocumentChunksFilter(document_id, user_id) ==
    [must |-> {<<"document_id", document_id>>}
                \cup (IF user_id # NoUser THEN {<<"user_id", user_id>>} ELSE {}),
     should |-> NoShould]

\* The points that filter selects.
MatchingChunks(s, document_id, user_id) ==
    {p \in s : Matches(p, DocumentChunksFilter(document_id, user_id))}

\* client.scroll(..., limit=1000) of get_document_chunks: one page of at
\* most ScrollLimit points, with no further page asked for.
ScrollLimit == 2

\* VectorStoreService.get_document_chunks: the lists of payloads the single
\* scroll may return under that filter.  Which points make up a page that is
\* cut short depends on the point ids, which are random (uuid4).
GetDocumentChunks(s, document_id, user_id) ==
    LET matching == MatchingChunks(s, document_id, user_id)
    IN  {page \in SUBSET matching :
            Cardinality(page) = Min(Cardinality(matching), ScrollLimit)}

\* The points get_all_documents scrolls through: all of them when user_id
\* is None, else those of user_id.
ScrolledPoints(s, user_id) ==
    {p \in s : user_id = NoUser \/ Matches(p, [must |-> {<<"user_id", user_id>>}, should |-> NoShould])}

\* VectorStoreService.get_all_documents: one StoredDocument per distinct
\* document_id among the scrolled points.
GetAllDocuments(s, user_id) == {p.document_id : p \in ScrolledPoints(s, user_id)}

\* VectorStoreService.get_document_count
GetDocumentCount(s, user_id) == Cardinality(GetAllDocuments(s, user_id))

\* VectorStoreService.delete_by_document: the store afterwards and the
\* returned count.
DeleteByDocument(s, document_id, user_id) ==
    LET chunks == CHOOSE page \in GetDocumentChunks(s, document_id, user_id) : TRUE
        count == Cardinality(chunks)
    IN  [store |-> IF count > 0
                   THEN {p \in s : ~Matches(p, [must |-> {<<"document_id", document_id>>,
                                                          <<"user_id", user_id>>},
                                                should |-> NoShould])}
                   ELSE s,
         count |-> count]

NoDocRequest ==
    [op |-> "none", requester |-> "u1", document_id |-> "d1", status |-> 0,
     read |-> {}, removed |-> {}, count |-> 0]

\* GET /documents for the tenant `requester`.  The handler calls
\* get_all_documents() with no user_id.
ListDocuments ==
    /\ docOut.op = "none"
    /\ \E requester \in Users :
         docOut' = [op |-> "list_documents", requester |-> requester, document_id |-> "d1",
                    status |-> 200, read |-> ScrolledPoints(store, NoUser), removed |-> {},
                    count |-> 0]
    /\ UNCHANGED <<store, searchOut, govSide, query, raceSide, asmOut, pdfSide, loopSide, authSide>>

\* GET /documents/{document_id}.  The handler calls
\* get_document_chunks(document_id) with no user_id.
GetDocument ==
    /\ docOut.op = "none"
    /\ \E requester \in Users, document_id \in DocIds :
         \E chunks_data \in GetDocumentChunks(store, document_id, NoUser) :
             docOut' = [op |-> "get_document", requester |-> requester,
                        document_id |-> document_id,
                        status |-> IF chunks_data = {} THEN 404 ELSE 200,
                        read |-> chunks_data, removed |-> {}, count |-> 0]
    /\ UNCHANGED <<store, searchOut, govSide, query, raceSide, asmOut, pdfSide, loopSide, authSide>>

\* DELETE /documents/{document_id}.  The existence check is
\* get_document_chunks(document_id) with no user_id; the call
\* delete_by_document(document_id) then lacks the required user_id
\* argument and raises TypeError before anything is deleted.
DeleteDocument ==
    /\ docOut.op = "none"
    /\ \E requester \in Users, document_id \in DocIds :
         \E chunks \in GetDocumentChunks(store, document_id, NoUser) :
             docOut' = [op |-> "delete_document", requester |-> requester,
                        document_id |-> document_id,
                        status |-> IF chunks = {} THEN 404 ELSE 500,
                        read |-> chunks, removed |-> {}, count |-> 0]
    /\ UNCHANGED <<store, searchOut, govSide, query, raceSide, asmOut, pdfSide, loopSide, authSide>>

\* POST /documents.  The limit check counts get_document_count() with no
\* user_id.  Past it the file is validated and processed (400 on failure);
\* add_chunks returns 0 for an empty chunk list and otherwise reads
\* chunk.user_id, which models/documents.py Chunk does not have
\* (AttributeError), so no point is ever written.
UploadDocument ==
    /\ docOut.op = "none"
    /\ \E requester \in Users, valid \in BOOLEAN, processed \in BOOLEAN, nchunks \in 0..1 :
         LET current_count == GetDocumentCount(store, NoUser)
             st == IF current_count >= MaxDocuments THEN 409
                   ELSE IF ~valid \/ ~processed THEN 400
                   ELSE IF nchunks = 0 THEN 201
                   ELSE 500
         IN  docOut' = [op |-> "upload_document", requester |-> requester, document_id |-> "d1",
                        status |-> st, read |-> ScrolledPoints(store, NoUser), removed |-> {},
                        count |-> 0]
    /\ UNCHANGED <<store, searchOut, govSide, query, raceSide, asmOut, pdfSide, loopSide, authSide>>

DocReturn ==
    /\ docOut.op # "none"
    /\ docOut' = NoDocRequest
    /\ UNCHANGED <<store, searchOut, govSide, query, raceSide, asmOut, pdfSide, loopSide, authSide>>

\* VectorStoreService.delete_by_document(document_id, user_id) called as the
\* method is declared, for the tenant `requester`.  `read` is the points
\* the filter matched, `removed` the points the call took out of the store,
\* `count` the returned number.
DoDeleteByDocument ==
    /\ docOut.op = "none"
    /\ \E user_id \in Users, document_id \in DocIds :
         LET result == DeleteByDocument(store, document_id, user_id)
         IN  /\ store' = result.store
             /\ docOut' = [op |-> "delete_by_document", requester |-> user_id,
                           document_id |-> document_id, status |-> 0,
                           read |-> MatchingChunks(store, document_id, user_id),
                           removed |-> store \ result.store, count |-> result.count]
    /\ UNCHANGED <<searchOut, govSide, query, raceSide, asmOut, pdfSide, loopSide, authSide>>

\* The chunks of document d of tenant u in a store.
ChunksOf(s, d, u) == {p \in s : p.document_id = d /\ p.user_id = u}

\* C25 (without the returned number): delete_by_document(d, u) removes the
\* chunks of document d of tenant u and no other; with no such chunk the
\* store is unchanged.
C25_RemovesExactly ==
    docOut.op = "delete_by_document" =>
        LET before == store \cup docOut.removed
            target == ChunksOf(before, docOut.document_id, docOut.requester)
        IN  /\ docOut.removed = target
            /\ store = before \ target
            /\ ChunksOf(store, docOut.document_id, docOut.requester) = {}

\* C25: delete_by_document(d, u) removes exactly the chunks of document d
\* of tenant u, leaves every other chunk as it was, and returns the number
\* of chunks it removed (0 and an unchanged store when none matches).
C25_DeleteExactly ==
    /\ C25_RemovesExactly
    /\ docOut.op = "delete_by_document" =>
          docOut.count = Cardinality(docOut.removed)

\* C2: a document operation requested by one tenant reads, counts and
\* deletes only points whose user_id is that tenant's.
C2_TenantIsolation ==
    docOut.op # "none" =>
        \A p \in docOut.read \cup docOut.removed : p.user_id = docOut.requester

\* ------------------------------------------------------------------------
\* The usage governor: utils/cost_tracker.py.  A day is a number; cost_usd
\* is counted in whole cost units; the started_at stamp of a record is left
\* out.  The ceilings are settings (config.py), here a small configuration
\* with positive ceilings.
\* ------------------------------------------------------------------------
MaxDay == 2
MaxTracked == 3
MaxDailyQueries == 2
MaxDailyCost == 2

Days == 1..MaxDay

\* The arguments track_query is called with in the model.
TrackInputs ==
    { [input_tokens |-> 0, output_tokens |-> 0, cost_usd |-> 0],
      [input_tokens |-> 2, output_tokens |-> 1, cost_usd |-> 2] }

\* A day without a key in _daily_usage.
NoRecord ==
    [present |-> FALSE, queries |-> 0, input_tokens |-> 0, output_tokens |-> 0, cost_usd |-> 0]

\* The record _get_today_usage creates.
ZeroRecord ==
    [present |-> TRUE, queries |-> 0, input_tokens |-> 0, output_tokens |-> 0, cost_usd |-> 0]

\* CostTracker._get_today_key: date.today().isoformat()
GetTodayKeyFixed(day) == IF day > 1 THEN 1 ELSE day
GetTodayKey(day) == day

\* CostTracker._get_today_usage: _daily_usage after the lazy creation of
\* today's record; the method returns its entry for today.
GetTodayUsage(du, day) ==
    IF ~du[GetTodayKey(day)].present
    THEN [du EXCEPT ![GetTodayKey(day)] = ZeroRecord]
    ELSE du

\* CostTracker.can_process_query: (allowed, reason) and _daily_usage after.
CanProcessQueryNoCost(du, day) ==
    LET du2 == GetTodayUsage(du, day)
        usage == du2[GetTodayKey(day)]
    IN  IF usage.queries >= MaxDailyQueries
        THEN [daily_usage |-> du2, allowed |-> FALSE, reason |-> "Daily query limit reached"]
        ELSE [daily_usage |-> du2, allowed |-> TRUE, reason |-> "OK"]
CanProcessQueryCounting(du, day) ==
    LET du2 == [GetTodayUsage(du, day) EXCEPT ![GetTodayKey(day)].queries = Min(@ + 1, MaxTracked)]
        usage == du2[GetTodayKey(day)]
    IN  IF usage.queries >= MaxDailyQueries
        THEN [daily_usage |-> du2, allowed |-> FALSE, reason |-> "Daily query limit reached"]
        ELSE [daily_usage |-> du2, allowed |-> TRUE, reason |-> "OK"]
CanProcessQuery(du, day) ==
    LET du2 == GetTodayUsage(du, day)
        usage == du2[GetTodayKey(day)]
    IN  IF usage.queries >= MaxDailyQueries
        THEN [daily_usage |-> du2, allowed |-> FALSE, reason |-> "Daily query limit reached"]
        ELSE IF usage.cost_usd >= MaxDailyCost
        THEN [daily_usage |-> du2, allowed |-> FALSE, reason |-> "Daily cost limit reached"]
        ELSE [daily_usage |-> du2, allowed |-> TRUE, reason |-> "OK"]

\* CostTracker.track_query: _daily_usage after the four increments.
TrackQueryAssign(du, day, a) ==
    [GetTodayUsage(du, day) EXCEPT
        ![GetTodayKey(day)].queries = 1,
        ![GetTodayKey(day)].input_tokens = a.input_tokens,
        ![GetTodayKey(day)].output_tokens = a.output_tokens,
        ![GetTodayKey(day)].cost_usd = a.cost_usd]
TrackQuery(du, day, a) ==
    [GetTodayUsage(du, day) EXCEPT
        ![GetTodayKey(day)].queries = @ + 1,
        ![GetTodayKey(day)].input_tokens = @ + a.input_tokens,
        ![GetTodayKey(day)].output_tokens = @ + a.output_tokens,
        ![GetTodayKey(day)].cost_usd = @ + a.cost_usd]

NoStats == [period |-> 0, queries_today |-> 0, total_tokens_used |-> 0, total_cost_usd |-> 0]

\* CostTracker.get_usage_stats: the snapshot and _daily_usage after.
GetUsageStatsInputOnly(du, day) ==
    LET du2 == GetTodayUsage(du, day)
        usage == du2[GetTodayKey(day)]
    IN  [daily_usage |-> du2,
         stats |-> [period |-> GetTodayKey(day),
                    queries_today |-> usage.queries,
                    total_tokens_used |-> usage.input_tokens,
                    total_cost_usd |-> usage.cost_usd]]
GetUsageStats(du, day) ==
    LET du2 == GetTodayUsage(du, day)
        usage == du2[GetTodayKey(day)]
    IN  [daily_usage |-> du2,
         stats |-> [period |-> GetTodayKey(day),
                    queries_today |-> usage.queries,
                    total_tokens_used |-> usage.input_tokens + usage.output_tokens,
                    total_cost_usd |-> usage.cost_usd]]

\* CostTracker.reset_daily_usage: del _daily_usage[today] when present.
ResetDailyUsage(du, day) ==
    IF du[GetTodayKey(day)].present
    THEN [du EXCEPT ![GetTodayKey(day)] = NoRecord]
    ELSE du

\* What the track_query calls of one day add up to: how many there were,
\* the tokens and the cost they passed.  A day on which reset_daily_usage
\* ran is marked and no longer counted.
NoTally == [calls |-> 0, tokens |-> 0, cost |-> 0, reset |-> FALSE]
ResetTally == [calls |-> 0, tokens |-> 0, cost |-> 0, reset |-> TRUE]
Tally(t, a) ==
    IF t.reset THEN t
    ELSE [t EXCEPT !.calls = @ + 1,
                   !.tokens = @ + a.input_tokens + a.output_tokens,
                   !.cost = @ + a.cost_usd]

NoGovCall ==
    [op |-> "none", day |-> 1, allowed |-> TRUE, reason |-> "OK", existed |-> FALSE,
     first |-> FALSE, deniedBefore |-> FALSE, trackedSince |-> FALSE, stats |-> NoStats]

\* gate records, for the current day: no can_process_query yet
\* ("unchecked"), only allowed so far ("allowed"), a denial ("denied"), a
\* denial followed by a track_query ("denied_tracked").  reset_daily_usage
\* ends the record a denial was about.
GateDenied == gate \in {"denied", "denied_tracked"}

GovCanProcess ==
    /\ LET r == CanProcessQuery(daily_usage, today)
       IN  /\ daily_usage' = r.daily_usage
           /\ govOut' = [NoGovCall EXCEPT
                           !.op = "can_process_query", !.day = today,
                           !.allowed = r.allowed, !.reason = r.reason,
                           !.existed = daily_usage[today].present,
                           !.first = (gate = "unchecked"),
                           !.deniedBefore = GateDenied,
                           !.trackedSince = (gate = "denied_tracked")]
           /\ gate' = IF GateDenied THEN gate
                      ELSE IF r.allowed THEN "allowed" ELSE "denied"
    /\ UNCHANGED <<today, ledger, storeSide, query, raceSide, asmOut, pdfSide, loopSide, authSide>>

\* track_query with non-negative arguments; at most MaxTracked calls a day.
GovTrack ==
    /\ daily_usage[today].queries < MaxTracked
    /\ \E a \in TrackInputs :
         /\ daily_usage' = TrackQuery(daily_usage, today, a)
         /\ govOut' = [NoGovCall EXCEPT !.op = "track_query", !.day = today,
                                        !.existed = daily_usage[today].present]
         /\ ledger' = [ledger EXCEPT ![today] = Tally(@, a)]
    /\ gate' = IF GateDenied THEN "denied_tracked" ELSE gate
    /\ UNCHANGED <<today, storeSide, query, raceSide, asmOut, pdfSide, loopSide, authSide>>

GovStats ==
    /\ LET r == GetUsageStats(daily_usage, today)
       IN  /\ daily_usage' = r.daily_usage
           /\ govOut' = [NoGovCall EXCEPT !.op = "get_usage_stats", !.day = today,
                                          !.existed = daily_usage[today].present,
                                          !.stats = r.stats]
    /\ UNCHANGED <<today, gate, ledger, storeSide, query, raceSide, asmOut, pdfSide, loopSide, authSide>>

GovReset ==
    /\ daily_usage' = ResetDailyUsage(daily_usage, today)
    /\ govOut' = [NoGovCall EXCEPT !.op = "reset_daily_usage", !.day = today,
                                   !.existed = daily_usage[today].present]
    /\ gate' = IF GateDenied THEN "allowed" ELSE gate
    /\ ledger' = [ledger EXCEPT ![today] = ResetTally]
    /\ UNCHANGED <<today, storeSide, query, raceSide, asmOut, pdfSide, loopSide, authSide>>

\* Midnight: date.today() moves on.
Tick ==
    /\ today < MaxDay
    /\ today' = today + 1
    /\ gate' = "unchecked"
    /\ UNCHANGED <<daily_usage, govOut, ledger, storeSide, query, raceSide, asmOut, pdfSide, loopSide, authSide>>

\* C26: on a day without reset_daily_usage, get_usage_stats reports the
\* number of track_query calls of that day, the sum of their input and
\* output tokens, and the sum of their costs.
C26_StatsAreTotals ==
    (govOut.op = "get_usage_stats" /\ ~ledger[govOut.day].reset) =>
        /\ govOut.stats.period = govOut.day
        /\ govOut.stats.queries_today = ledger[govOut.day].calls
        /\ govOut.stats.total_tokens_used = ledger[govOut.day].tokens
        /\ govOut.stats.total_cost_usd = ledger[govOut.day].cost

\* Statistics read on the day after a midnight, after two track_query
\* calls with tokens that day and others the day before.
C26_Witness ==
    /\ govOut.op = "get_usage_stats"
    /\ govOut.day > 1
    /\ ~ledger[govOut.day].reset
    /\ ledger[govOut.day].calls >= 2
    /\ ledger[govOut.day].tokens >= 6
    /\ ledger[1].calls >= 1
    /\ govOut.stats.queries_today = ledger[govOut.day].calls

\* A step of can_process_query or get_usage_stats leaves a record as it
\* was, or creates today's with all counters at zero.
RecordKept(d) ==
    \/ daily_usage'[d] = daily_usage[d]
    \/ d = today /\ ~daily_usage[d].present /\ daily_usage'[d] = ZeroRecord

\* Some counter of day d is larger after the step.
CounterGrows(d) ==
    \/ daily_usage'[d].queries > daily_usage[d].queries
    \/ daily_usage'[d].input_tokens > daily_usage[d].input_tokens
    \/ daily_usage'[d].output_tokens > daily_usage[d].output_tokens
    \/ daily_usage'[d].cost_usd > daily_usage[d].cost_usd

\* C29: can_process_query and get_usage_stats change no counter of any day
\* (at most they create today's record with every counter at zero), and a
\* step in which a counter grows is a track_query.
C29_ReadOnly ==
    /\ [][ (GovCanProcess \/ GovStats) => \A d \in Days : RecordKept(d) ]_vars
    /\ [][ (\E d \in Days : CounterGrows(d)) => govOut'.op = "track_query" ]_vars

\* can_process_query or get_usage_stats has just run on a day whose record
\* existed with counters above zero.
C29_Witness ==
    /\ govOut.op \in {"can_process_query", "get_usage_stats"}
    /\ govOut.existed
    /\ daily_usage[govOut.day].queries >= 1
    /\ daily_usage[govOut.day].cost_usd >= 1

\* Either ceiling reached, read off the record itself.
LimitReached(usage) ==
    usage.queries >= MaxDailyQueries \/ usage.cost_usd >= MaxDailyCost

\* C8: within one day, once can_process_query has returned denied, every
\* later can_process_query of that day returns denied, whatever track_query
\* (non-negative arguments) and get_usage_stats calls came in between.
C8_StaysClosed ==
    (govOut.op = "can_process_query" /\ govOut.deniedBefore) => ~govOut.allowed

\* A second denial on a day, with a track_query since the first.
C8_Witness ==
    /\ govOut.op = "can_process_query"
    /\ govOut.trackedSince
    /\ ~govOut.allowed
    /\ daily_usage[govOut.day].queries > MaxDailyQueries

\* C9 as stated: the first can_process_query of a day reached by rollover
\* sees all four counters at zero and returns allowed.
C9_FirstCheckSeesZero ==
    (govOut.op = "can_process_query" /\ govOut.first /\ govOut.day > 1) =>
        (daily_usage[govOut.day] = ZeroRecord /\ govOut.allowed)

\* C9 as amended: a can_process_query on a day that has no record yet
\* creates one with all four counters at zero and returns allowed, and no
\* operation changes or deletes the record of another day.
C9_Reopen ==
    /\ [](  (govOut.op = "can_process_query" /\ ~govOut.existed) =>
            (daily_usage[govOut.day] = ZeroRecord /\ govOut.allowed) )
    /\ [][ \A d \in Days : d # today => daily_usage'[d] = daily_usage[d] ]_vars

\* The first check of a new day, allowed, while the day before is closed.
C9_Witness ==
    /\ govOut.op = "can_process_query"
    /\ ~govOut.existed
    /\ govOut.allowed
    /\ govOut.day > 1
    /\ daily_usage[govOut.day] = ZeroRecord
    /\ daily_usage[govOut.day - 1].present
    /\ LimitReached(daily_usage[govOut.day - 1])

\* ------------------------------------------------------------------------
\* POST /query: api/query.py query_documents, one execution at a time.
\* The handler's position is query.pc; the counters count the calls this
\* execution made.
\* ------------------------------------------------------------------------
NoQuery ==
    [pc |-> "idle", status |-> 0, detail |-> "none", admitted |-> FALSE,
     usageAtAdmit |-> NoRecord, docCounted |-> FALSE,
     embedCalls |-> 0, searchCalls |-> 0, llmCalls |-> 0, trackCalls |-> 0,
     llmReturned |-> FALSE, sources |-> <<>>, citations |-> <<>>]

\* Lines 46-55: cost_tracker.can_process_query(); 429 when denied.
AdmissionCounting(q, r) ==
    [q EXCEPT !.pc = IF r.allowed THEN "admitted" ELSE "done",
              !.status = IF r.allowed THEN 0 ELSE 429,
              !.detail = r.reason,
              !.admitted = r.allowed,
              !.trackCalls = @ + 1]
Admission(q, r) ==
    [q EXCEPT !.pc = IF r.allowed THEN "admitted" ELSE "done",
              !.status = IF r.allowed THEN 0 ELSE 429,
              !.detail = r.reason,
              !.admitted = r.allowed]

QAdmit ==
    /\ query.pc = "idle"
    /\ LET r == CanProcessQuery(daily_usage, today)
       IN  /\ daily_usage' = r.daily_usage
           /\ govOut' = [NoGovCall EXCEPT
                           !.op = "can_process_query", !.day = today,
                           !.allowed = r.allowed, !.reason = r.reason,
                           !.existed = daily_usage[today].present,
                           !.first = (gate = "unchecked"),
                           !.deniedBefore = GateDenied,
                           !.trackedSince = (gate = "denied_tracked")]
           /\ gate' = IF GateDenied THEN gate
                      ELSE IF r.allowed THEN "allowed" ELSE "denied"
           /\ query' = [Admission(query, r) EXCEPT
                           !.usageAtAdmit = IF daily_usage[today].present
                                            THEN daily_usage[today] ELSE ZeroRecord]
    /\ UNCHANGED <<today, ledger, storeSide, raceSide, asmOut, pdfSide, loopSide, authSide>>

\* Lines 64-70: vector_store.get_document_count() with no user_id; 400
\* when the collection holds no document.
QDocCount ==
    /\ query.pc = "admitted"
    /\ LET doc_count == GetDocumentCount(store, NoUser)
       IN  query' = IF doc_count = 0
                    THEN [query EXCEPT !.pc = "done", !.status = 400,
                                       !.detail = "No documents uploaded",
                                       !.docCounted = TRUE]
                    ELSE [query EXCEPT !.pc = "counted", !.docCounted = TRUE]
    /\ UNCHANGED <<govSide, storeSide, raceSide, asmOut, pdfSide, loopSide, authSide>>

\* Lines 72-75: embedding_service.embed_text(question); an exception of
\* the embedding adapter ends the request.
QEmbed ==
    /\ query.pc = "counted"
    /\ \E ok \in BOOLEAN :
         query' = IF ok
                  THEN [query EXCEPT !.pc = "embedded", !.embedCalls = @ + 1]
                  ELSE [query EXCEPT !.pc = "done", !.status = 500,
                                     !.detail = "embedding adapter failed",
                                     !.embedCalls = @ + 1]
    /\ UNCHANGED <<govSide, storeSide, raceSide, asmOut, pdfSide, loopSide, authSide>>

\* Lines 77-84: vector_store.search(query_embedding=, limit=,
\* document_ids=, min_score=).  search requires user_id
\* (vector_store.py:115) and the call gives none, so the call raises
\* TypeError; nothing catches it, and lines 87-179 (citations, the 422
\* answers, generate_answer, track_query) are never reached.
QSearch ==
    /\ query.pc = "embedded"
    /\ query' = [query EXCEPT !.pc = "done", !.status = 500,
                              !.detail = "TypeError: search() missing user_id",
                              !.searchCalls = @ + 1]
    /\ UNCHANGED <<govSide, storeSide, raceSide, asmOut, pdfSide, loopSide, authSide>>

QReturn ==
    /\ query.pc = "done"
    /\ query' = NoQuery
    /\ UNCHANGED <<govSide, storeSide, raceSide, asmOut, pdfSide, loopSide, authSide>>

DownstreamCalls(q) == q.embedCalls + q.searchCalls + q.llmCalls + q.trackCalls

\* C5: a query that finds either ceiling reached at admission is denied
\* with a reason and ends with the limit error without a call to the
\* embedding adapter, the search, the LLM adapter or track_query; no such
\* call is ever made before admission was granted.
C5_GateFirst ==
    query.pc # "idle" =>
        /\ LimitReached(query.usageAtAdmit) =>
             /\ query.pc = "done"
             /\ query.status = 429
             /\ query.detail # "OK"
             /\ ~query.admitted
             /\ ~query.docCounted
             /\ DownstreamCalls(query) = 0
        /\ (DownstreamCalls(query) > 0 \/ query.docCounted) => query.admitted

\* A query denied because of the cost ceiling alone, documents being there.
C5_Witness ==
    /\ query.pc = "done"
    /\ query.status = 429
    /\ query.usageAtAdmit.cost_usd >= MaxDailyCost
    /\ query.usageAtAdmit.queries < MaxDailyQueries
    /\ store # {}

MinRelevanceScore == 1

\* The stored points a search at the configured threshold has to offer;
\* query_documents names no tenant.
Retrievable(s) == {p \in s : p.score >= MinRelevanceScore}

C18_NoEvidence ==
    (query.pc = "done" /\ query.searchCalls = 1 /\ Retrievable(store) = {}) =>
        /\ query.status = 422
        /\ query.detail = "no_relevant_chunks"

NThreads == 2

RaceThreads == 1..NThreads

\* The dict objects: one a thread may create, and one that exists already.
Existing == NThreads + 1
Objects == 1..(NThreads + 1)

\* The counters in the order track_query increments them.
Fields == <<"queries", "input_tokens", "output_tokens", "cost_usd">>

ZeroCounters == [queries |-> 0, input_tokens |-> 0, output_tokens |-> 0, cost_usd |-> 0]

IdleThread ==
    [pc |-> "idle", field |-> 1, usage |-> 0, tmp |-> 0,
     a |-> [input_tokens |-> 0, output_tokens |-> 0, cost_usd |-> 0]]

\* What track_query adds to a counter.
Increment(a, f) == IF f = "queries" THEN 1 ELSE a[f]

\* track_query(input_tokens, output_tokens, cost_usd) is called.
RStart(t) ==
    /\ threads[t].pc = "idle"
    /\ \E a \in TrackInputs :
         threads' = [threads EXCEPT ![t] = [IdleThread EXCEPT !.pc = "check", !.a = a]]
    /\ UNCHANGED <<heap, slot, storeSide, govSide, query, asmOut, pdfSide, loopSide, authSide>>

\* _get_today_usage: if today not in self._daily_usage
RCheck(t) ==
    /\ threads[t].pc = "check"
    /\ threads' = [threads EXCEPT ![t].pc = IF slot = 0 THEN "create" ELSE "fetch"]
    /\ UNCHANGED <<heap, slot, storeSide, govSide, query, asmOut, pdfSide, loopSide, authSide>>

\* _get_today_usage: self._daily_usage[today] = {...zeros...}
RCreate(t) ==
    /\ threads[t].pc = "create"
    /\ heap' = [heap EXCEPT ![t] = ZeroCounters]
    /\ slot' = t
    /\ threads' = [threads EXCEPT ![t].pc = "fetch"]
    /\ UNCHANGED <<storeSide, govSide, query, asmOut, pdfSide, loopSide, authSide>>

\* _get_today_usage: return self._daily_usage[today]
RFetch(t) ==
    /\ threads[t].pc = "fetch"
    /\ threads' = [threads EXCEPT ![t].pc = "read", ![t].usage = slot, ![t].field = 1]
    /\ UNCHANGED <<heap, slot, storeSide, govSide, query, asmOut, pdfSide, loopSide, authSide>>

\* usage[k] += v, first half: load usage[k]
RRead(t) ==
    /\ threads[t].pc = "read"
    /\ threads' = [threads EXCEPT ![t].pc = "write",
                                  ![t].tmp = heap[threads[t].usage][Fields[threads[t].field]]]
    /\ UNCHANGED <<heap, slot, storeSide, govSide, query, asmOut, pdfSide, loopSide, authSide>>

\* usage[k] += v, second half: store the sum
RWrite(t) ==
    /\ threads[t].pc = "write"
    /\ LET f == Fields[threads[t].field]
       IN  heap' = [heap EXCEPT ![threads[t].usage][f] =
                        threads[t].tmp + Increment(threads[t].a, f)]
    /\ threads' = [threads EXCEPT
                     ![t].pc = IF threads[t].field = Len(Fields) THEN "done" ELSE "read",
                     ![t].field = IF threads[t].field = Len(Fields) THEN @ ELSE @ + 1]
    /\ UNCHANGED <<slot, storeSide, govSide, query, asmOut, pdfSide, loopSide, authSide>>

RECURSIVE SumArgs(_, _)
SumArgs(T, f) ==
    IF T = {} THEN 0
    ELSE LET t == CHOOSE x \in T : TRUE
         IN  Increment(threads[t].a, f) + SumArgs(T \ {t}, f)

\* C7: once NThreads concurrent track_query calls have all completed,
\* today's record has grown by exactly NThreads queries and by the sums of
\* the arguments: no interleaving loses an update.
C7_NoLostUpdate ==
    (\A t \in RaceThreads : threads[t].pc = "done") =>
        /\ slot # 0
        /\ \A i \in 1..Len(Fields) : heap[slot][Fields[i]] = SumArgs(RaceThreads, Fields[i])

\* ------------------------------------------------------------------------
\* The answer assembler: services/llm_service.py.  A text is a sequence of
\* words; the tokenizer counts one token a word; cost_usd is counted in
\* units of the input rate per token (the output rate is four times it).
\* ------------------------------------------------------------------------
MaxContext == 2

Words ==
    {"Confidence:", "confidence:", "HIGH", "high", "medium", "low", "insufficient",
     "cannot find sufficient", "Clearly", "explicitly", "text"}

\* str.lower() on a word.
Lower(w) ==
    CASE w = "Confidence:" -> "confidence:"
      [] w = "HIGH" -> "high"
      [] w = "Clearly" -> "clearly"
      [] OTHER -> w

Levels == {"high", "medium", "low"}

\* LLMService.count_tokens
CountTokens(text) == Len(text)

\* LLMService._parse_confidence: the level after the leftmost
\* "confidence:" marker, else the level the phrases suggest.
ParseConfidenceClarityFirst(response_text) ==
    LET text_lower == [i \in 1..Len(response_text) |-> Lower(response_text[i])]
        marks == {i \in 1..(Len(text_lower) - 1) :
                    text_lower[i] = "confidence:" /\ text_lower[i + 1] \in Levels}
    IN  IF marks # {}
        THEN text_lower[(CHOOSE i \in marks : \A j \in marks : i <= j) + 1]
        ELSE IF \E i \in 1..Len(text_lower) : text_lower[i] \in {"clearly", "explicitly"}
        THEN "high"
        ELSE IF \E i \in 1..Len(text_lower) :
                   text_lower[i] \in {"cannot find sufficient", "insufficient"}
        THEN "low"
        ELSE "medium"
ParseConfidencePhrasesFirst(response_text) ==
    LET text_lower == [i \in 1..Len(response_text) |-> Lower(response_text[i])]
        marks == {i \in 1..(Len(text_lower) - 1) :
                    text_lower[i] = "confidence:" /\ text_lower[i + 1] \in Levels}
    IN  IF \E i \in 1..Len(text_lower) :
               text_lower[i] \in {"cannot find sufficient", "insufficient"}
        THEN "low"
        ELSE IF \E i \in 1..Len(text_lower) : text_lower[i] \in {"clearly", "explicitly"}
        THEN "high"
        ELSE IF marks # {}
        THEN text_lower[(CHOOSE i \in marks : \A j \in marks : i <= j) + 1]
        ELSE "medium"
ParseConfidence(response_text) ==
    LET text_lower == [i \in 1..Len(response_text) |-> Lower(response_text[i])]
        marks == {i \in 1..(Len(text_lower) - 1) :
                    text_lower[i] = "confidence:" /\ text_lower[i + 1] \in Levels}
    IN  IF marks # {}
        THEN text_lower[(CHOOSE i \in marks : \A j \in marks : i <= j) + 1]
        ELSE IF \E i \in 1..Len(text_lower) :
                   text_lower[i] \in {"cannot find sufficient", "insufficient"}
        THEN "low"
        ELSE IF \E i \in 1..Len(text_lower) : text_lower[i] \in {"clearly", "explicitly"}
        THEN "high"
        ELSE "medium"

\* The chunks handed to generate_answer in the model.
ContextSamples ==
    { [document_title |-> "d1", page_number |-> 1, text |-> <<"text">>, score |-> 2],
      [document_title |-> "d2", page_number |-> 2, text |-> <<"text", "text">>, score |-> 1] }

ContextLists == UNION { [1..n -> ContextSamples] : n \in 0..MaxContext }

Questions == { <<"text">>, <<"text", "text">> }

\* What the LLM adapter may answer.
Answers ==
    { <<>>,
      <<"text">>,
      <<"text", "Confidence:", "HIGH">>,
      <<"text", "confidence:", "medium">>,
      <<"insufficient", "text", "confidence:", "high">>,
      <<"Clearly", "text", "confidence:", "low">>,
      <<"text", "insufficient">>,
      <<"cannot find sufficient", "explicitly">>,
      <<"text", "explicitly">>,
      <<"confidence:", "text", "low">>,
      <<"confidence:", "low", "text", "Confidence:", "HIGH">> }

Replies == {[raised |-> TRUE, text |-> <<>>]} \cup {[raised |-> FALSE, text |-> a] : a \in Answers}

\* LLMService._build_context: one numbered source block per chunk, in the
\* order of the list.
BuildContext(chunks) ==
    [i \in 1..Len(chunks) |->
        [source_num |-> i, doc_title |-> chunks[i].document_title,
         page_number |-> chunks[i].page_number, text |-> chunks[i].text,
         score |-> chunks[i].score]]

RECURSIVE ContextTokens(_)
ContextTokens(context) ==
    IF context = <<>> THEN 0
    ELSE 1 + CountTokens(context[1].text) + ContextTokens(Tail(context))

\* count_tokens(SYSTEM_PROMPT + user_prompt): the fixed instructions, the
\* question and the context.
PromptTokens(question, context) == 1 + CountTokens(question) + ContextTokens(context)

\* input_tokens / 1000 * input rate + output_tokens / 1000 * output rate
Cost(input_tokens, output_tokens) == input_tokens + 4 * output_tokens

\* The fixed answer of the short circuit.
InsufficientAnswer == <<"cannot find sufficient", "text">>

\* The rest of generate_answer: prompt, one call of
\* client.chat.completions.create, token counts, cost, confidence.
AnswerFromLLM(question, context_chunks, reply) ==
    LET input_tokens == PromptTokens(question, BuildContext(context_chunks))
    IN  IF reply.raised
        THEN [raised |-> TRUE, answer |-> <<>>, confidence |-> "none",
              input_tokens |-> input_tokens, output_tokens |-> 0, cost_usd |-> 0,
              llm_calls |-> 1]
        ELSE [raised |-> FALSE, answer |-> reply.text,
              confidence |-> ParseConfidence(reply.text),
              input_tokens |-> input_tokens,
              output_tokens |-> CountTokens(reply.text),
              cost_usd |-> Cost(input_tokens, CountTokens(reply.text)),
              llm_calls |-> 1]

\* LLMService.generate_answer
GenerateAnswerNoShortCircuit(question, context_chunks, reply) ==
    AnswerFromLLM(question, context_chunks, reply)
GenerateAnswer(question, context_chunks, reply) ==
    IF context_chunks = <<>>
    THEN [raised |-> FALSE, answer |-> InsufficientAnswer, confidence |-> "low",
          input_tokens |-> 0, output_tokens |-> 0, cost_usd |-> 0, llm_calls |-> 0]
    ELSE AnswerFromLLM(question, context_chunks, reply)

NoGenerate ==
    [called |-> FALSE, question |-> <<>>, context_chunks |-> <<>>,
     result |-> [raised |-> FALSE, answer |-> <<>>, confidence |-> "none",
                 input_tokens |-> 0, output_tokens |-> 0, cost_usd |-> 0, llm_calls |-> 0]]

DoGenerate ==
    /\ ~asmOut.called
    /\ \E question \in Questions, context_chunks \in ContextLists, reply \in Replies :
         asmOut' = [called |-> TRUE, question |-> question,
                    context_chunks |-> context_chunks,
                    result |-> GenerateAnswer(question, context_chunks, reply)]
    /\ UNCHANGED <<storeSide, govSide, query, raceSide, pdfSide, loopSide, authSide>>

GenerateReturn ==
    /\ asmOut.called
    /\ asmOut' = NoGenerate
    /\ UNCHANGED <<storeSide, govSide, query, raceSide, pdfSide, loopSide, authSide>>

\* C10: generate_answer called with an empty chunk list returns confidence
\* low, no input tokens, no output tokens and no cost, and makes no call of
\* the LLM adapter, whatever the question.
C10_EmptyContext ==
    (asmOut.called /\ asmOut.context_chunks = <<>>) =>
        /\ asmOut.result.confidence = "low"
        /\ asmOut.result.input_tokens = 0
        /\ asmOut.result.output_tokens = 0
        /\ asmOut.result.cost_usd = 0
        /\ asmOut.result.llm_calls = 0
        /\ ~asmOut.result.raised

\* generate_answer was called with a question and no chunk.
C10_Witness ==
    /\ asmOut.called
    /\ asmOut.context_chunks = <<>>
    /\ Len(asmOut.question) = 2
    /\ asmOut.result.answer = InsufficientAnswer

\* Position i of an answer starts an explicit marker: the word
\* "confidence:" in any letter case, followed by a level in any letter case.
MarkerAt(text, i) ==
    /\ i < Len(text)
    /\ Lower(text[i]) = "confidence:"
    /\ Lower(text[i + 1]) \in Levels

\* C16: the confidence parsed from an answer of the LLM is always one of
\* high, medium, low, and when the answer contains an explicit marker it is
\* the level that marker names (the leftmost marker, when there are
\* several), whatever insufficiency or clarity phrases the answer holds.
C16_MarkerWins ==
    (asmOut.called /\ asmOut.result.llm_calls = 1 /\ ~asmOut.result.raised) =>
        LET answer == asmOut.result.answer
        IN  /\ asmOut.result.confidence \in Levels
            /\ \A i \in 1..Len(answer) :
                 (MarkerAt(answer, i) /\ \A j \in 1..(i - 1) : ~MarkerAt(answer, j))
                     => asmOut.result.confidence = Lower(answer[i + 1])

\* An answer with an insufficiency phrase and the marker "confidence:
\* high", parsed as high.
C16_Witness ==
    /\ asmOut.called
    /\ asmOut.result.llm_calls = 1
    /\ ~asmOut.result.raised
    /\ \E i \in 1..Len(asmOut.result.answer) : MarkerAt(asmOut.result.answer, i)
    /\ \E i \in 1..Len(asmOut.result.answer) : asmOut.result.answer[i] = "insufficient"
    /\ asmOut.result.confidence = "high"

\* The answer holds one of the given phrases, in any letter case.
HasPhrase(text, phrases) == \E i \in 1..Len(text) : Lower(text[i]) \in phrases

\* An answer of the LLM without an explicit marker has been parsed.
ParsedWithoutMarker ==
    /\ asmOut.called
    /\ asmOut.result.llm_calls = 1
    /\ ~asmOut.result.raised
    /\ \A i \in 1..Len(asmOut.result.answer) : ~MarkerAt(asmOut.result.answer, i)

\* C21: for an answer without an explicit marker the rules apply in
\* order, the first match deciding: an insufficiency phrase gives low,
\* else a clarity phrase gives high, else medium; an answer with both
\* kinds of phrase gives low.
C21_OrderedFallback ==
    ParsedWithoutMarker =>
        asmOut.result.confidence =
            IF HasPhrase(asmOut.result.answer, {"cannot find sufficient", "insufficient"})
            THEN "low"
            ELSE IF HasPhrase(asmOut.result.answer, {"clearly", "explicitly"})
            THEN "high"
            ELSE "medium"

\* An answer without a marker that holds an insufficiency phrase and a
\* clarity phrase, parsed as low.
C21_Witness ==
    /\ ParsedWithoutMarker
    /\ HasPhrase(asmOut.result.answer, {"cannot find sufficient", "insufficient"})
    /\ HasPhrase(asmOut.result.answer, {"clearly", "explicitly"})
    /\ asmOut.result.confidence = "low"

\* ------------------------------------------------------------------------
\* The chunker: services/pdf_processor.py _split_into_chunks.  A text is
\* the sequence of the sentences re.split finds, a sentence the sequence
\* of its words, a word the number of tokens the tokenizer gives it.  The
\* token count of a sentence is the sum over its words.  cl100k_base makes
\* a token of its own of a trailing blank, so count_tokens(word + ' ') is
\* one more than count_tokens(word).  A chunk is the sequence of the units
\* (sentences, or words of a sentence split by words) that ' '.join joins.
\* ------------------------------------------------------------------------
MaxSentences == 4
MaxTokens == 4
MaxOverlap == 2

\* Sentences of 1, 2, 3 and 4 tokens, and two sentences long enough to be
\* split by words into pieces of more than one word.
Sentences ==
    { <<1>>, <<2>>, <<1, 2>>, <<2, 2>>, <<1, 1, 2, 1>>, <<1, 1, 1, 1, 1>> }

\* A blank text (empty or whitespace only) has no sentence.
Texts == UNION { [1..n -> Sentences] : n \in 0..MaxSentences }

RECURSIVE SumCounts(_)
SumCounts(counts) == IF counts = <<>> THEN 0 ELSE Head(counts) + SumCounts(Tail(counts))

\* count_tokens(sentence)
SentenceTokens(sentence) == SumCounts(sentence)

\* count_tokens(word + ' ')
WordTokens(word) == word.tokens + 1

\* The i-th sentence as an element of a chunk; tokens is count_tokens(s).
SentenceUnit(text, i) == [s |-> i, w |-> 0, tokens |-> SentenceTokens(text[i])]

\* sentence.split(): the words of the i-th sentence.
SplitWords(text, i) == [j \in 1..Len(text[i]) |-> [s |-> i, w |-> j, tokens |-> text[i][j]]]

RECURSIVE UnitsTokens(_)
UnitsTokens(units) ==
    IF units = <<>> THEN 0 ELSE Head(units).tokens + UnitsTokens(Tail(units))

\* temp_chunk = [word]
NewTempChunkEmpty(word) == <<>>
NewTempChunk(word) == <<word>>

\* The loop over the words of a sentence longer than max_tokens (lines
\* 61-72): the pieces appended to chunks, and temp_chunk and temp_tokens
\* after the last word.
RECURSIVE WordLoop(_, _, _)
WordLoop(words, max_tokens, acc) ==
    IF words = <<>> THEN acc
    ELSE LET word == Head(words)
             word_tokens == WordTokens(word)
         IN  WordLoop(Tail(words), max_tokens,
                IF acc.temp_tokens + word_tokens > max_tokens
                THEN [chunks |-> IF acc.temp_chunk # <<>>
                                 THEN Append(acc.chunks, acc.temp_chunk)
                                 ELSE acc.chunks,
                      temp_chunk |-> NewTempChunk(word),
                      temp_tokens |-> word_tokens]
                ELSE [chunks |-> acc.chunks,
                      temp_chunk |-> Append(acc.temp_chunk, word),
                      temp_tokens |-> acc.temp_tokens + word_tokens])

\* The walk over reversed(current_chunk) (lines 81-89) from position k
\* down: overlap_chunk and overlap_count when it ends.
RECURSIVE OverlapWalkNoBreak(_, _, _, _)
OverlapWalkNoBreak(current_chunk, k, overlap_tokens, acc) ==
    IF k = 0 THEN acc
    ELSE IF acc.overlap_count + current_chunk[k].tokens <= overlap_tokens
    THEN OverlapWalkNoBreak(current_chunk, k - 1, overlap_tokens,
            [overlap_chunk |-> <<current_chunk[k]>> \o acc.overlap_chunk,
             overlap_count |-> acc.overlap_count + current_chunk[k].tokens])
    ELSE OverlapWalkNoBreak(current_chunk, k - 1, overlap_tokens, acc)
OverlapWalkNone(current_chunk, k, overlap_tokens, acc) == acc
OverlapWalkKeepLast(current_chunk, k, overlap_tokens, acc) ==
    IF k = 0 THEN acc
    ELSE [overlap_chunk |-> <<current_chunk[k]>>, overlap_count |-> current_chunk[k].tokens]
RECURSIVE OverlapWalk(_, _, _, _)
OverlapWalk(current_chunk, k, overlap_tokens, acc) ==
    IF k = 0 THEN acc
    ELSE IF acc.overlap_count + current_chunk[k].tokens <= overlap_tokens
    THEN OverlapWalk(current_chunk, k - 1, overlap_tokens,
            [overlap_chunk |-> <<current_chunk[k]>> \o acc.overlap_chunk,
             overlap_count |-> acc.overlap_count + current_chunk[k].tokens])
    ELSE acc

NoEvent == [kind |-> "none", flushed |-> <<>>, overlap |-> <<>>, sentence |-> 0]

\* How a chunk was begun: by the first sentence ("first"), with an overlap
\* of seed units after an overflow ("overflow"), or by the word loop
\* ("split").
FirstStart == [kind |-> "first", seed |-> 0]
SplitStart == [kind |-> "split", seed |-> 0]

\* The locals of _split_into_chunks before the first sentence.
StartChunker(text, max_tokens, overlap_tokens) ==
    [pc |-> "loop", text |-> text, max_tokens |-> max_tokens,
     overlap_tokens |-> overlap_tokens, i |-> 1,
     chunks |-> <<>>, starts |-> <<>>,
     current_chunk |-> <<>>, current_tokens |-> 0, cur_start |-> FirstStart,
     last |-> NoEvent]

\* Lines 52-75: a sentence longer than max_tokens.  The buffer is flushed,
\* the sentence is cut by words, and the last piece becomes the buffer.
LongSentenceStep(c) ==
    LET flushed == IF c.current_chunk # <<>> THEN <<c.current_chunk>> ELSE <<>>
        flushedStarts == IF c.current_chunk # <<>> THEN <<c.cur_start>> ELSE <<>>
        r == WordLoop(SplitWords(c.text, c.i), c.max_tokens,
                      [chunks |-> <<>>, temp_chunk |-> <<>>, temp_tokens |-> 0])
    IN  [c EXCEPT
           !.i = @ + 1,
           !.chunks = @ \o flushed \o r.chunks,
           !.starts = @ \o flushedStarts \o [k \in 1..Len(r.chunks) |-> SplitStart],
           !.current_chunk = r.temp_chunk,
           !.current_tokens = IF r.temp_chunk # <<>> THEN r.temp_tokens ELSE 0,
           !.cur_start = SplitStart,
           !.last = [kind |-> "long", flushed |-> c.current_chunk, overlap |-> <<>>,
                     sentence |-> c.i]]

\* Lines 76-92: the sentence does not fit.  The buffer is flushed and the
\* new buffer is the overlap followed by the sentence.
OverflowStep(c) ==
    LET sentence == SentenceUnit(c.text, c.i)
        o == OverlapWalk(c.current_chunk, Len(c.current_chunk), c.overlap_tokens,
                         [overlap_chunk |-> <<>>, overlap_count |-> 0])
    IN  [c EXCEPT
           !.i = @ + 1,
           !.chunks = Append(@, c.current_chunk),
           !.starts = Append(@, c.cur_start),
           !.current_chunk = o.overlap_chunk \o <<sentence>>,
           !.current_tokens = o.overlap_count + sentence.tokens,
           !.cur_start = [kind |-> "overflow", seed |-> Len(o.overlap_chunk)],
           !.last = [kind |-> "overflow", flushed |-> c.current_chunk,
                     overlap |-> o.overlap_chunk, sentence |-> c.i]]

\* Lines 93-95: the sentence fits.
AppendStep(c) ==
    LET sentence == SentenceUnit(c.text, c.i)
    IN  [c EXCEPT
           !.i = @ + 1,
           !.current_chunk = Append(@, sentence),
           !.current_tokens = @ + sentence.tokens,
           !.last = [kind |-> "append", flushed |-> <<>>, overlap |-> <<>>,
                     sentence |-> c.i]]

\* Lines 97-101: the final chunk, and the return.
FinishStep(c) ==
    [c EXCEPT
       !.pc = "returned",
       !.chunks = IF c.current_chunk # <<>> THEN Append(@, c.current_chunk) ELSE @,
       !.starts = IF c.current_chunk # <<>> THEN Append(@, c.cur_start) ELSE @,
       !.last = [kind |-> "finish", flushed |-> c.current_chunk, overlap |-> <<>>,
                 sentence |-> 0]]

\* One iteration of the loop over the sentences.
SentenceStep(c) ==
    IF SentenceTokens(c.text[c.i]) > c.max_tokens THEN LongSentenceStep(c)
    ELSE IF c.current_tokens + SentenceTokens(c.text[c.i]) > c.max_tokens THEN OverflowStep(c)
    ELSE AppendStep(c)

\* _split_into_chunks(text, max_tokens, overlap_tokens): the chunks.
RECURSIVE RunChunker(_)
RunChunker(c) == IF c.i > Len(c.text) THEN FinishStep(c) ELSE RunChunker(SentenceStep(c))

SplitIntoChunks(text, max_tokens, overlap_tokens) ==
    IF text = <<>> THEN <<>>
    ELSE RunChunker(StartChunker(text, max_tokens, overlap_tokens)).chunks

NoChunker == [StartChunker(<<>>, 1, 0) EXCEPT !.pc = "idle"]

ChunkLongSentence ==
    /\ chunker.pc = "loop"
    /\ chunker.i <= Len(chunker.text)
    /\ SentenceTokens(chunker.text[chunker.i]) > chunker.max_tokens
    /\ chunker' = LongSentenceStep(chunker)
    /\ UNCHANGED <<storeSide, govSide, query, raceSide, asmOut, pdfRuns, upload, loopSide, authSide>>

ChunkOverflow ==
    /\ chunker.pc = "loop"
    /\ chunker.i <= Len(chunker.text)
    /\ SentenceTokens(chunker.text[chunker.i]) <= chunker.max_tokens
    /\ chunker.current_tokens + SentenceTokens(chunker.text[chunker.i]) > chunker.max_tokens
    /\ chunker' = OverflowStep(chunker)
    /\ UNCHANGED <<storeSide, govSide, query, raceSide, asmOut, pdfRuns, upload, loopSide, authSide>>

ChunkAppend ==
    /\ chunker.pc = "loop"
    /\ chunker.i <= Len(chunker.text)
    /\ SentenceTokens(chunker.text[chunker.i]) <= chunker.max_tokens
    /\ chunker.current_tokens + SentenceTokens(chunker.text[chunker.i]) <= chunker.max_tokens
    /\ chunker' = AppendStep(chunker)
    /\ UNCHANGED <<storeSide, govSide, query, raceSide, asmOut, pdfRuns, upload, loopSide, authSide>>

\* Lines 39-40: if not text.strip(): return []
ChunkBlank ==
    /\ chunker.pc = "loop"
    /\ chunker.text = <<>>
    /\ chunker' = [chunker EXCEPT !.pc = "returned",
                                  !.last = [kind |-> "blank", flushed |-> <<>>,
                                            overlap |-> <<>>, sentence |-> 0]]
    /\ UNCHANGED <<storeSide, govSide, query, raceSide, asmOut, pdfRuns, upload, loopSide, authSide>>

ChunkFinish ==
    /\ chunker.pc = "loop"
    /\ chunker.text # <<>>
    /\ chunker.i > Len(chunker.text)
    /\ chunker' = FinishStep(chunker)
    /\ UNCHANGED <<storeSide, govSide, query, raceSide, asmOut, pdfRuns, upload, loopSide, authSide>>

\* C11: every chunk emitted by _split_into_chunks has a token total (the
\* sum of the token counts of its sentences and words) of at most
\* max_tokens, unless it consists of one single word that alone exceeds
\* max_tokens.
C11_ChunkWithinMax ==
    \A k \in 1..Len(chunker.chunks) :
        \/ UnitsTokens(chunker.chunks[k]) <= chunker.max_tokens
        \/ /\ Len(chunker.chunks[k]) = 1
           /\ chunker.chunks[k][1].w # 0
           /\ chunker.chunks[k][1].tokens > chunker.max_tokens

\* The first n units of chunk k are the last n units of the chunk before.
SharedPrefix(chunks, k, n) ==
    /\ n <= Len(chunks[k])
    /\ n <= Len(chunks[k - 1])
    /\ SubSeq(chunks[k], 1, n) =
           SubSeq(chunks[k - 1], Len(chunks[k - 1]) - n + 1, Len(chunks[k - 1]))

\* C12 as stated: with overlap_tokens > 0, every chunk after the first
\* begins with a non-empty sequence of whole sentences that is the tail of
\* the chunk before, of at most overlap_tokens tokens.
C12_SharedPrefix ==
    chunker.overlap_tokens > 0 =>
        \A k \in 2..Len(chunker.chunks) :
            \E n \in 1..Len(chunker.chunks[k]) :
                /\ SharedPrefix(chunker.chunks, k, n)
                /\ \A j \in 1..n : chunker.chunks[k][j].w = 0
                /\ UnitsTokens(SubSeq(chunker.chunks[k], 1, n)) <= chunker.overlap_tokens

\* C12 as amended: a chunk begun after an overflow begins with the overlap,
\* which is the tail of the chunk before, has at most overlap_tokens
\* tokens, and is non-empty exactly when the last unit of the chunk before
\* has at most overlap_tokens tokens; a chunk begun by the word loop has no
\* unit in common with the chunk before.
C12_OverlapWhenFits ==
    \A k \in 2..Len(chunker.chunks) :
        LET chunks == chunker.chunks
            prev == chunks[k - 1]
            n == chunker.starts[k].seed
        IN  /\ chunker.starts[k].kind = "overflow" =>
                 /\ n < Len(chunks[k])
                 /\ SharedPrefix(chunks, k, n)
                 /\ UnitsTokens(SubSeq(chunks[k], 1, n)) <= chunker.overlap_tokens
                 /\ (n >= 1) <=> (prev[Len(prev)].tokens <= chunker.overlap_tokens)
            /\ chunker.starts[k].kind = "split" =>
                 \A a \in 1..Len(chunks[k]) : \A b \in 1..Len(prev) : chunks[k][a] # prev[b]

\* A finished run with overlap_tokens > 0 in which one chunk begins with a
\* shared sentence and another, begun after an overflow too, shares
\* nothing because the sentence before it is too long for the overlap.
C12_Witness ==
    /\ chunker.pc = "returned"
    /\ chunker.overlap_tokens > 0
    /\ \E k \in 2..Len(chunker.chunks) :
         chunker.starts[k].kind = "overflow" /\ chunker.starts[k].seed >= 1
    /\ \E k \in 2..Len(chunker.chunks) :
         chunker.starts[k].kind = "overflow" /\ chunker.starts[k].seed = 0

RECURSIVE Flatten(_)
Flatten(chunks) == IF chunks = <<>> THEN <<>> ELSE Head(chunks) \o Flatten(Tail(chunks))

\* One sentence of more than max_tokens tokens, no word of which exceeds
\* max_tokens, chunked without overlap: the run has returned.
OneLongSentence ==
    /\ chunker.pc = "returned"
    /\ Len(chunker.text) = 1
    /\ SentenceTokens(chunker.text[1]) > chunker.max_tokens
    /\ chunker.overlap_tokens = 0
    /\ \A j \in 1..Len(chunker.text[1]) : chunker.text[1][j] <= chunker.max_tokens

\* C15: a single sentence longer than max_tokens, chunked with overlap 0,
\* every word of it at most max_tokens: each emitted piece totals at most
\* max_tokens and the pieces, put end to end, are the words of the
\* sentence in their order, each once.
C15_WordPieces ==
    OneLongSentence =>
        /\ \A k \in 1..Len(chunker.chunks) :
             UnitsTokens(chunker.chunks[k]) <= chunker.max_tokens
        /\ Flatten(chunker.chunks) = SplitWords(chunker.text, 1)

\* Such a sentence cut into several pieces, one of them of two words.
C15_Witness ==
    /\ OneLongSentence
    /\ Len(chunker.chunks) >= 2
    /\ \E k \in 1..Len(chunker.chunks) : Len(chunker.chunks[k]) = 2

\* C20: when a sentence does not fit, the new buffer is the overlap
\* followed by that sentence; the overlap is a contiguous suffix of the
\* chunk just flushed, in its order, of at most overlap_tokens tokens, and
\* it ends where the next earlier unit would exceed overlap_tokens (or
\* covers the whole chunk).
C20_OverlapSeed ==
    chunker.last.kind = "overflow" =>
        LET flushed == chunker.last.flushed
            overlap == chunker.last.overlap
            n == Len(overlap)
        IN  /\ n <= Len(flushed)
            /\ overlap = SubSeq(flushed, Len(flushed) - n + 1, Len(flushed))
            /\ UnitsTokens(overlap) <= chunker.overlap_tokens
            /\ \/ n = Len(flushed)
               \/ UnitsTokens(overlap) + flushed[Len(flushed) - n].tokens
                      > chunker.overlap_tokens
            /\ chunker.current_chunk = overlap \o <<SentenceUnit(chunker.text, chunker.last.sentence)>>
            /\ chunker.chunks[Len(chunker.chunks)] = flushed

\* An overflow whose overlap takes the last unit of the flushed chunk and
\* stops before an earlier one that would have fitted alone.
C20_Witness ==
    /\ chunker.last.kind = "overflow"
    /\ Len(chunker.last.overlap) >= 1
    /\ Len(chunker.last.overlap) < Len(chunker.last.flushed)
    /\ chunker.last.flushed[1].tokens <= chunker.overlap_tokens

\* The units of a text in reading order: each sentence, or its words when
\* the sentence is longer than max_tokens.
RECURSIVE UnitsFrom(_, _, _)
UnitsFrom(text, max_tokens, i) ==
    IF i > Len(text) THEN <<>>
    ELSE (IF SentenceTokens(text[i]) > max_tokens
          THEN SplitWords(text, i)
          ELSE <<SentenceUnit(text, i)>>) \o UnitsFrom(text, max_tokens, i + 1)

\* C24: with overlap_tokens = 0 the emitted chunks, put end to end, are
\* the sentences and words of the input in their order, each once; a blank
\* input gives no chunk.
C24_NoCarry ==
    chunker.pc = "returned" =>
        /\ chunker.overlap_tokens = 0 =>
             Flatten(chunker.chunks) = UnitsFrom(chunker.text, chunker.max_tokens, 1)
        /\ chunker.text = <<>> => chunker.chunks = <<>>

\* A run without overlap in which a sentence did not fit and began a new
\* chunk on its own, after a chunk of several sentences.
C24_Witness ==
    /\ chunker.pc = "returned"
    /\ chunker.overlap_tokens = 0
    /\ \E k \in 2..Len(chunker.chunks) :
         /\ chunker.starts[k].kind = "overflow"
         /\ Len(chunker.chunks[k - 1]) >= 2

\* ------------------------------------------------------------------------
\* process_pdf and validate_file (services/pdf_processor.py) and the
\* upload endpoint step by step (api/documents.py upload_document).  The
\* limits are settings (config.py), here a small configuration.
\* ------------------------------------------------------------------------
ChunkSizeTokens == 3
ChunkOverlapTokens == 1
MaxPagesPerDocument == 2
MaxFileSizeMb == 1

\* The markdown text of a page: blank, or a text of sentences.
PageTexts ==
    { <<>>, << <<1>> >>, << <<2>>, <<2>> >>, << <<1>>, <<1, 2>>, <<1>> >> }

\* The bytes of a file: not a PDF at all, or a PDF with its pages, which
\* pymupdf4llm.to_markdown extracts or fails on.
NotAPdf == [parseable |-> FALSE, extractable |-> FALSE, pages |-> <<>>]

Files ==
    {NotAPdf} \cup
    { [parseable |-> TRUE, extractable |-> e, pages |-> ps] :
        e \in BOOLEAN,
        ps \in UNION { [1..n -> PageTexts] : n \in 0..(MaxPagesPerDocument + 1) } }

\* uuid.uuid4(): one of the identifiers a run may draw.
Uuids == {"uuid-a", "uuid-b"}

\* Lines 187-202: the Chunk objects of one page; enumerate counts from 0.
PageChunksSameOrdinal(doc_id, page_num, page_text) ==
    LET page_chunks == SplitIntoChunks(page_text, ChunkSizeTokens, ChunkOverlapTokens)
    IN  [k \in 1..Len(page_chunks) |->
            [chunk_id |-> <<doc_id, page_num, 0>>, document_id |-> doc_id,
             page_number |-> page_num, text |-> page_chunks[k],
             token_count |-> UnitsTokens(page_chunks[k])]]
PageChunks(doc_id, page_num, page_text) ==
    LET page_chunks == SplitIntoChunks(page_text, ChunkSizeTokens, ChunkOverlapTokens)
    IN  [k \in 1..Len(page_chunks) |->
            [chunk_id |-> <<doc_id, page_num, k - 1>>, document_id |-> doc_id,
             page_number |-> page_num, text |-> page_chunks[k],
             token_count |-> UnitsTokens(page_chunks[k])]]

\* Lines 166-202: the loop over the pages from page p on; a blank page is
\* skipped.
RECURSIVE ChunksFrom(_, _, _)
ChunksFrom(doc_id, pages, p) ==
    IF p > Len(pages) THEN <<>>
    ELSE (IF pages[p] = <<>> THEN <<>> ELSE PageChunks(doc_id, p, pages[p]))
            \o ChunksFrom(doc_id, pages, p + 1)

\* PDFProcessor.process_pdf with the uuid it drew: the exception it
\* raises, or the ProcessedDocument.
ProcessPdf(file, doc_id) ==
    IF ~file.parseable
    THEN [raised |-> "Exception", id |-> doc_id, page_count |-> 0, chunks |-> <<>>]
    ELSE IF Len(file.pages) > MaxPagesPerDocument
    THEN [raised |-> "ValueError", id |-> doc_id, page_count |-> Len(file.pages),
          chunks |-> <<>>]
    ELSE IF ~file.extractable
    THEN [raised |-> "Exception", id |-> doc_id, page_count |-> Len(file.pages),
          chunks |-> <<>>]
    ELSE [raised |-> "none", id |-> doc_id, page_count |-> Len(file.pages),
          chunks |-> ChunksFrom(doc_id, file.pages, 1)]

NoRun == [raised |-> "none", id |-> "none", page_count |-> 0, chunks |-> <<>>]

NoRuns == [n |-> 0, file |-> NotAPdf, first |-> NoRun, second |-> NoRun]

\* process_pdf is called on a file.
ProcessFile ==
    /\ pdfRuns.n = 0
    /\ \E file \in Files, doc_id \in Uuids :
         pdfRuns' = [n |-> 1, file |-> file, first |-> ProcessPdf(file, doc_id),
                     second |-> NoRun]
    /\ UNCHANGED <<storeSide, govSide, query, raceSide, asmOut, chunker, upload, loopSide, authSide>>

\* process_pdf is called on the same file again, settings unchanged.
ProcessAgain ==
    /\ pdfRuns.n = 1
    /\ \E doc_id \in Uuids :
         pdfRuns' = [pdfRuns EXCEPT !.n = 2, !.second = ProcessPdf(pdfRuns.file, doc_id)]
    /\ UNCHANGED <<storeSide, govSide, query, raceSide, asmOut, chunker, upload, loopSide, authSide>>

ForgetRuns ==
    /\ pdfRuns.n = 2
    /\ pdfRuns' = NoRuns
    /\ UNCHANGED <<storeSide, govSide, query, raceSide, asmOut, chunker, upload, loopSide, authSide>>

ChunkTexts(run) == [k \in 1..Len(run.chunks) |-> run.chunks[k].text]
ChunkIds(run) == [k \in 1..Len(run.chunks) |-> run.chunks[k].chunk_id]

\* C13: two runs of process_pdf on the same content with the same
\* configuration give the same sequence of chunk texts and the same chunk
\* ids.
C13_Deterministic ==
    pdfRuns.n = 2 =>
        /\ ChunkTexts(pdfRuns.first) = ChunkTexts(pdfRuns.second)
        /\ ChunkIds(pdfRuns.first) = ChunkIds(pdfRuns.second)

\* The number of chunks before position k that come from the same page.
EarlierOfPage(chunks, k) ==
    Cardinality({j \in 1..(k - 1) : chunks[j].page_number = chunks[k].page_number})

\* C22: in a document process_pdf has produced, every chunk has the id
\* (document_id, page, ordinal) with ordinal its 0-based position among
\* the chunks of its page; the chunks come page by page in page order,
\* each page with text gives the chunks its text splits into, a blank page
\* gives none, and no two chunks share a chunk_id.
C22_ChunkIds ==
    (pdfRuns.n >= 1 /\ pdfRuns.first.raised = "none") =>
        LET chunks == pdfRuns.first.chunks
            pages == pdfRuns.file.pages
        IN  /\ \A k \in 1..Len(chunks) :
                 /\ chunks[k].document_id = pdfRuns.first.id
                 /\ chunks[k].chunk_id =
                        <<pdfRuns.first.id, chunks[k].page_number, EarlierOfPage(chunks, k)>>
                 /\ chunks[k].page_number \in 1..Len(pages)
                 /\ pages[chunks[k].page_number] # <<>>
            /\ \A j \in 1..Len(chunks) : \A k \in j..Len(chunks) :
                 chunks[j].page_number <= chunks[k].page_number
            /\ \A p \in 1..Len(pages) :
                 Cardinality({k \in 1..Len(chunks) : chunks[k].page_number = p}) =
                     Len(SplitIntoChunks(pages[p], ChunkSizeTokens, ChunkOverlapTokens))
            /\ \A j \in 1..Len(chunks) : \A k \in 1..Len(chunks) :
                 chunks[j].chunk_id = chunks[k].chunk_id => j = k

\* A document whose first page is blank and whose second page splits into
\* several chunks.
C22_Witness ==
    /\ pdfRuns.n >= 1
    /\ pdfRuns.first.raised = "none"
    /\ Len(pdfRuns.file.pages) = 2
    /\ pdfRuns.file.pages[1] = <<>>
    /\ Len(pdfRuns.first.chunks) >= 2
    /\ pdfRuns.first.chunks[2].chunk_id = <<pdfRuns.first.id, 2, 1>>

\* An uploaded file: its name ends in .pdf or not, it has a size, and it
\* has its bytes.
UploadFiles ==
    { [ext_ok |-> x, size_mb |-> z, file |-> f] :
        x \in BOOLEAN, z \in {MaxFileSizeMb, MaxFileSizeMb + 1}, f \in Files }

\* PDFProcessor.validate_file: (is_valid, error_message)
ValidateFileAcceptAll(u) == [is_valid |-> TRUE, error_message |-> "OK"]
ValidateFile(u) ==
    IF ~u.ext_ok
    THEN [is_valid |-> FALSE, error_message |-> "Only PDF files are accepted"]
    ELSE IF u.size_mb > MaxFileSizeMb
    THEN [is_valid |-> FALSE, error_message |-> "File too large"]
    ELSE IF ~u.file.parseable
    THEN [is_valid |-> FALSE, error_message |-> "Invalid PDF file"]
    ELSE IF Len(u.file.pages) > MaxPagesPerDocument
    THEN [is_valid |-> FALSE, error_message |-> "Document has too many pages"]
    ELSE IF Len(u.file.pages) = 0
    THEN [is_valid |-> FALSE, error_message |-> "PDF has no pages"]
    ELSE [is_valid |-> TRUE, error_message |-> "OK"]

NoUpload ==
    [pc |-> "idle", input |-> [ext_ok |-> TRUE, size_mb |-> 0, file |-> NotAPdf],
     status |-> 0, detail |-> "none", chunks |-> <<>>, chunksCreated |-> 0,
     embedCalls |-> 0, storeCalls |-> 0, storeBefore |-> {}]

\* Lines 85-100: the document limit, counted without user_id, and the
\* reading of the file.
UStart ==
    /\ upload.pc = "idle"
    /\ \E u \in UploadFiles :
         upload' = IF GetDocumentCount(store, NoUser) >= MaxDocuments
                   THEN [NoUpload EXCEPT !.pc = "done", !.input = u, !.status = 409,
                                         !.detail = "Document limit reached",
                                         !.storeBefore = store]
                   ELSE [NoUpload EXCEPT !.pc = "validate", !.input = u,
                                         !.storeBefore = store]
    /\ UNCHANGED <<storeSide, govSide, query, raceSide, asmOut, chunker, pdfRuns, loopSide, authSide>>

\* Lines 102-108: validate_file; 400 with its message when invalid.
UValidate ==
    /\ upload.pc = "validate"
    /\ LET r == ValidateFile(upload.input)
       IN  upload' = IF r.is_valid
                     THEN [upload EXCEPT !.pc = "process"]
                     ELSE [upload EXCEPT !.pc = "done", !.status = 400,
                                         !.detail = r.error_message]
    /\ UNCHANGED <<storeSide, govSide, query, raceSide, asmOut, chunker, pdfRuns, loopSide, authSide>>

\* Lines 110-123: process_pdf; 400 on ValueError and on any other
\* exception.
UProcess ==
    /\ upload.pc = "process"
    /\ \E doc_id \in Uuids :
         LET processed_doc == ProcessPdf(upload.input.file, doc_id)
         IN  upload' = IF processed_doc.raised # "none"
                       THEN [upload EXCEPT !.pc = "done", !.status = 400,
                                           !.detail = "Failed to process PDF"]
                       ELSE [upload EXCEPT !.pc = "embed",
                                           !.chunks = processed_doc.chunks,
                                           !.chunksCreated = Len(processed_doc.chunks)]
    /\ UNCHANGED <<storeSide, govSide, query, raceSide, asmOut, chunker, pdfRuns, loopSide, authSide>>

\* Lines 125-127: embedding_service.embed_texts(chunk_texts); an exception
\* of the embedding adapter ends the request.
UEmbed ==
    /\ upload.pc = "embed"
    /\ \E ok \in BOOLEAN :
         upload' = IF ok
                   THEN [upload EXCEPT !.pc = "store", !.embedCalls = @ + 1]
                   ELSE [upload EXCEPT !.pc = "done", !.status = 500,
                                       !.detail = "embedding adapter failed",
                                       !.embedCalls = @ + 1]
    /\ UNCHANGED <<storeSide, govSide, query, raceSide, asmOut, chunker, pdfRuns, loopSide, authSide>>

\* Lines 129-142: vector_store.add_chunks.  It returns 0 for an empty list
\* (vector_store.py:84-85); for any other list it reads chunk.user_id
\* (vector_store.py:95), a field Chunk does not have, and raises
\* AttributeError before the upsert.
UStore ==
    /\ upload.pc = "store"
    /\ upload' = IF upload.chunks = <<>>
                 THEN [upload EXCEPT !.pc = "done", !.status = 201,
                                     !.detail = "Document processed successfully",
                                     !.storeCalls = @ + 1]
                 ELSE [upload EXCEPT !.pc = "done", !.status = 500,
                                     !.detail = "AttributeError: Chunk has no user_id",
                                     !.storeCalls = @ + 1]
    /\ UNCHANGED <<storeSide, govSide, query, raceSide, asmOut, chunker, pdfRuns, loopSide, authSide>>

UReturn ==
    /\ upload.pc = "done"
    /\ upload' = NoUpload
    /\ UNCHANGED <<storeSide, govSide, query, raceSide, asmOut, chunker, pdfRuns, loopSide, authSide>>

\* What validation has to reject: a name that is not .pdf, a file above
\* max_file_size_mb, bytes that are no PDF, more pages than
\* max_pages_per_document, no page.
MustReject(u) ==
    \/ ~u.ext_ok
    \/ u.size_mb > MaxFileSizeMb
    \/ ~u.file.parseable
    \/ Len(u.file.pages) > MaxPagesPerDocument
    \/ Len(u.file.pages) = 0

\* C14: an upload of a file that validation has to reject creates no
\* chunk, makes no embedding call and no store call, leaves the store as it
\* was, and ends with the error 400 of the validation (unless the document
\* limit already refused it with 409).
C14_RejectedBeforeWork ==
    (upload.pc # "idle" /\ MustReject(upload.input)) =>
        /\ upload.chunksCreated = 0
        /\ upload.embedCalls = 0
        /\ upload.storeCalls = 0
        /\ store = upload.storeBefore
        /\ upload.pc \in {"validate", "done"}
        /\ upload.pc = "done" =>
             \/ upload.status = 409
             \/ upload.status = 400 /\ upload.detail # "Failed to process PDF"

\* A PDF with one page too many, every page with text, refused with 400
\* while the store holds a document.
C14_Witness ==
    /\ upload.pc = "done"
    /\ upload.status = 400
    /\ upload.input.ext_ok
    /\ upload.input.size_mb <= MaxFileSizeMb
    /\ Len(upload.input.file.pages) = MaxPagesPerDocument + 1
    /\ \A p \in 1..Len(upload.input.file.pages) : upload.input.file.pages[p] # <<>>
    /\ upload.input.file.extractable
    /\ store # {}

\* ------------------------------------------------------------------------
\* Concurrent requests.  The endpoints are `async def`: each request is a
\* coroutine on the one event loop of the process, and a coroutine keeps the
\* loop until it awaits or returns.
\* ------------------------------------------------------------------------
NQueries == 3

QueryRuns == 1..NQueries

\* pending: the request has arrived and its coroutine waits for the loop.
\* `waiting` is the number of other requests that were pending when this one
\* ran, `day` the day it ran on.
IdleQueryRun ==
    [pc |-> "idle", status |-> 0, detail |-> "none", admitted |-> FALSE,
     day |-> 0, waiting |-> 0]

\* query_documents from its first line to its return (query.py:46-179).
\* The body has no await.  It ends at 429 when the gate denies, at 400 when
\* the collection holds no document, at 500 when the embedding adapter raises,
\* and otherwise at the search call, which raises TypeError (see QSearch);
\* track_query (line 126) is not reached.
QueryDocumentsUngated(du, day, s, embed_ok) ==
    [daily_usage |-> TrackQuery(du, day, [input_tokens |-> 0, output_tokens |-> 0,
                                          cost_usd |-> 0]),
     gate |-> [daily_usage |-> du, allowed |-> TRUE, reason |-> "OK"],
     status |-> 200, detail |-> "OK"]
QueryDocuments(du, day, s, embed_ok) ==
    LET r == CanProcessQuery(du, day)
    IN  [daily_usage |-> r.daily_usage,
         gate |-> r,
         status |-> IF ~r.allowed THEN 429
                    ELSE IF GetDocumentCount(s, NoUser) = 0 THEN 400
                    ELSE 500,
         detail |-> IF ~r.allowed THEN r.reason
                    ELSE IF GetDocumentCount(s, NoUser) = 0 THEN "No documents uploaded"
                    ELSE IF ~embed_ok THEN "embedding adapter failed"
                    ELSE "TypeError: search() missing user_id"]

\* A POST /query arrives while others may be waiting or not yet made.
QueryArrive(q) ==
    /\ queryRuns[q].pc = "idle"
    /\ queryRuns' = [queryRuns EXCEPT ![q].pc = "pending"]
    /\ UNCHANGED <<storeSide, govSide, query, raceSide, asmOut, pdfSide, uploadRuns, authSide>>

\* The loop runs the coroutine of request q; with no await in the body the
\* next coroutine runs after this one has returned.
QueryRun(q) ==
    /\ queryRuns[q].pc = "pending"
    /\ \E embed_ok \in BOOLEAN :
         LET result == QueryDocuments(daily_usage, today, store, embed_ok)
         IN  /\ daily_usage' = result.daily_usage
             /\ govOut' = [NoGovCall EXCEPT
                             !.op = "can_process_query", !.day = today,
                             !.allowed = result.gate.allowed,
                             !.reason = result.gate.reason,
                             !.existed = daily_usage[today].present,
                             !.first = (gate = "unchecked"),
                             !.deniedBefore = GateDenied,
                             !.trackedSince = (gate = "denied_tracked")]
             /\ gate' = IF GateDenied THEN gate
                        ELSE IF result.gate.allowed THEN "allowed" ELSE "denied"
             /\ queryRuns' = [queryRuns EXCEPT ![q] =
                    [pc |-> "done", status |-> result.status, detail |-> result.detail,
                     admitted |-> result.gate.allowed, day |-> today,
                     waiting |-> Cardinality({o \in QueryRuns \ {q} :
                                                queryRuns[o].pc = "pending"})]]
    /\ UNCHANGED <<today, ledger, storeSide, query, raceSide, asmOut, pdfSide, uploadRuns, authSide>>

NUploads == 2

UploadRuns == 1..NUploads

\* The files of the concurrent uploads: a one-page PDF of the allowed size,
\* its page blank or one sentence long, under a .pdf name or another.
UploadSamples ==
    { u \in UploadFiles :
        /\ u.size_mb = MaxFileSizeMb
        /\ u.file.parseable /\ u.file.extractable
        /\ u.file.pages \in { << <<>> >>, << << <<1>> >> >> } }

\* VectorStoreService.add_chunks (vector_store.py:66-110): 0 for an empty
\* list; for any other list the payload reads chunk.user_id, which a Chunk
\* does not have, and AttributeError is raised before client.upsert.
AddChunksWriting(s, chunks) ==
    [raised |-> FALSE,
     store |-> s \cup { [user_id |-> "u1", document_id |-> chunks[k].document_id,
                         score |-> 0] : k \in 1..Len(chunks) },
     count |-> Len(chunks)]
AddChunks(s, chunks) ==
    IF chunks = <<>>
    THEN [raised |-> FALSE, store |-> s, count |-> 0]
    ELSE [raised |-> TRUE, store |-> s, count |-> 0]

\* `seen` is the document count the limit check read, `together` whether
\* another upload was suspended past its own check at that moment, `wrote`
\* whether the store differed after add_chunks.
IdleUploadRun ==
    [pc |-> "idle", status |-> 0, seen |-> 0, together |-> FALSE, wrote |-> FALSE,
     chunks |-> 0]

\* upload_document from its first line to `await file.read()`
\* (documents.py:85-99): the limit check, 409 at the limit, else the
\* coroutine is suspended and the loop may run another.
UploadCheck(u) ==
    /\ uploadRuns[u].pc = "idle"
    /\ LET current_count == GetDocumentCount(store, NoUser)
           together == \E o \in UploadRuns \ {u} : uploadRuns[o].pc = "reading"
       IN  uploadRuns' = [uploadRuns EXCEPT ![u] =
               IF current_count >= MaxDocuments
               THEN [IdleUploadRun EXCEPT !.pc = "done", !.status = 409,
                                          !.seen = current_count, !.together = together]
               ELSE [IdleUploadRun EXCEPT !.pc = "reading",
                                          !.seen = current_count, !.together = together]]
    /\ UNCHANGED <<storeSide, govSide, query, raceSide, asmOut, pdfSide, queryRuns, authSide>>

\* upload_document from the return of file.read() to its end
\* (documents.py:99-142), with no further await: validate_file, process_pdf,
\* embed_texts, add_chunks.
UploadResume(u) ==
    /\ uploadRuns[u].pc = "reading"
    /\ \E input \in UploadSamples, doc_id \in Uuids, embed_ok \in BOOLEAN :
         LET processed_doc == ProcessPdf(input.file, doc_id)
             added == AddChunks(store, processed_doc.chunks)
             stored == /\ ValidateFile(input).is_valid
                       /\ processed_doc.raised = "none"
                       /\ embed_ok
         IN  /\ store' = IF stored THEN added.store ELSE store
             /\ uploadRuns' = [uploadRuns EXCEPT ![u] =
                    [@ EXCEPT !.pc = "done",
                              !.status = IF ~ValidateFile(input).is_valid THEN 400
                                         ELSE IF processed_doc.raised # "none" THEN 400
                                         ELSE IF ~embed_ok THEN 500
                                         ELSE IF added.raised THEN 500
                                         ELSE 201,
                              !.wrote = (stored /\ added.store # store),
                              !.chunks = IF stored THEN Len(processed_doc.chunks) ELSE 0]]
    /\ UNCHANGED <<searchOut, docOut, govSide, query, raceSide, asmOut, pdfSide, queryRuns, authSide>>

MaxClock == 4
MaxLogins == 2

\* SESSION_DURATION = 24 * 60 * 60
SessionDuration == 2

\* secrets.token_urlsafe(32): the n-th successful login draws token n, a
\* value no earlier login drew.
Tokens == 1..MaxLogins

\* user_token is None: the request has no X-User-Token header.
NoToken == 0

\* secrets.token_hex(16)
UserIds == {"id-a", "id-b"}

NoSession == [present |-> FALSE, user_id |-> "none", created_at |-> 0]

NoLogin == [issued |-> FALSE, user_id |-> "none", at |-> 0, logged_out |-> FALSE]

\* _cleanup_expired_sessions: _sessions without the sessions older than
\* SESSION_DURATION at current_time.
CleanupExpiredSessionsNone(ss, current_time) == ss
CleanupExpiredSessions(ss, current_time) ==
    [t \in Tokens |->
        IF ss[t].present /\ current_time - ss[t].created_at > SessionDuration
        THEN NoSession
        ELSE ss[t]]

NoAuthCall ==
    [op |-> "none", token |-> NoToken, at |-> 0, accepted |-> FALSE,
     user_id |-> "none", status |-> 0]

\* The number of tokens drawn so far.
Issued == Cardinality({t \in Tokens : logins[t].issued})

\* POST /auth/login with the application password: a new token and user id,
\* the session stored, then the cleanup.
LoginOk ==
    /\ Issued < MaxLogins
    /\ \E user_id \in UserIds :
         LET token == Issued + 1
         IN  /\ sessions' = CleanupExpiredSessions(
                               [sessions EXCEPT ![token] =
                                   [present |-> TRUE, user_id |-> user_id,
                                    created_at |-> clock]], clock)
             /\ logins' = [logins EXCEPT ![token] =
                             [issued |-> TRUE, user_id |-> user_id, at |-> clock,
                              logged_out |-> FALSE]]
             /\ authOut' = [op |-> "login", token |-> token, at |-> clock,
                            accepted |-> TRUE, user_id |-> user_id, status |-> 200]
    /\ UNCHANGED <<clock, storeSide, govSide, query, raceSide, asmOut, pdfSide, loopSide>>

\* POST /auth/login with another password: 401, nothing stored.
LoginDenied ==
    /\ authOut' = [NoAuthCall EXCEPT !.op = "login", !.at = clock, !.status = 401]
    /\ UNCHANGED <<clock, sessions, logins, storeSide, govSide, query, raceSide, asmOut,
                   pdfSide, loopSide>>

\* POST /auth/validate
ValidateToken ==
    /\ \E token \in Tokens :
         LET ss == CleanupExpiredSessions(sessions, clock)
         IN  /\ sessions' = ss
             /\ authOut' = [NoAuthCall EXCEPT !.op = "validate_token", !.token = token,
                                              !.at = clock, !.accepted = ss[token].present,
                                              !.status = 200]
    /\ UNCHANGED <<clock, logins, storeSide, govSide, query, raceSide, asmOut, pdfSide,
                   loopSide>>

\* POST /auth/logout
Logout ==
    /\ \E token \in Tokens :
         /\ sessions' = [sessions EXCEPT ![token] = NoSession]
         /\ logins' = [logins EXCEPT ![token].logged_out = logins[token].issued]
         /\ authOut' = [NoAuthCall EXCEPT !.op = "logout", !.token = token, !.at = clock,
                                          !.status = 200]
    /\ UNCHANGED <<clock, storeSide, govSide, query, raceSide, asmOut, pdfSide, loopSide>>

\* get_user_id_from_token: 401 without a header or without a session, else
\* the session's user_id.
GetUserIdFromToken ==
    /\ \E user_token \in Tokens \cup {NoToken} :
         LET ss == CleanupExpiredSessions(sessions, clock)
             found == user_token # NoToken /\ ss[user_token].present
         IN  /\ sessions' = ss
             /\ authOut' = [op |-> "get_user_id_from_token", token |-> user_token,
                            at |-> clock, accepted |-> found,
                            user_id |-> IF found THEN ss[user_token].user_id ELSE "none",
                            status |-> IF found THEN 200 ELSE 401]
    /\ UNCHANGED <<clock, logins, storeSide, govSide, query, raceSide, asmOut, pdfSide,
                   loopSide>>

\* time.time() moves on.
ClockAdvance ==
    /\ clock < MaxClock
    /\ clock' = clock + 1
    /\ UNCHANGED <<sessions, logins, authOut, storeSide, govSide, query, raceSide, asmOut,
                   pdfSide, loopSide>>

\* C30: validate_token and get_user_id_from_token accept a token only if a
\* successful login issued it no more than SESSION_DURATION before and no
\* logout of it came since, and the user id returned for an accepted token is
\* the one issued at that login.
C30_AcceptedOnlyLive ==
    (authOut.op \in {"validate_token", "get_user_id_from_token"} /\ authOut.accepted) =>
        /\ authOut.token \in Tokens
        /\ logins[authOut.token].issued
        /\ logins[authOut.token].at <= authOut.at
        /\ authOut.at - logins[authOut.token].at <= SessionDuration
        /\ ~logins[authOut.token].logged_out
        /\ authOut.op = "get_user_id_from_token" =>
             authOut.user_id = logins[authOut.token].user_id

\* A token resolved to its user id exactly SESSION_DURATION after its login,
\* while an earlier token, issued to the other user id, is past its time.
C30_Witness ==
    /\ authOut.op = "get_user_id_from_token"
    /\ authOut.accepted
    /\ authOut.at = clock
    /\ clock - logins[authOut.token].at = SessionDuration
    /\ \E t \in Tokens \ {authOut.token} :
         /\ logins[t].issued
         /\ logins[t].user_id # authOut.user_id
         /\ clock - logins[t].at > SessionDuration
         /\ ~sessions[t].present

\* ------------------------------------------------------------------------
\* Specifications
\* ------------------------------------------------------------------------
IdleStore == /\ searchOut = NoSearch
             /\ docOut = NoDocRequest

IdleGov == /\ today = 1
           /\ daily_usage = [d \in Days |-> NoRecord]
           /\ gate = "unchecked"
           /\ govOut = NoGovCall
           /\ ledger = [d \in Days |-> NoTally]

IdleRace == /\ threads = [t \in RaceThreads |-> IdleThread]
            /\ heap = [o \in Objects |-> ZeroCounters]
            /\ slot = 0

IdleLoop == /\ queryRuns = [q \in QueryRuns |-> IdleQueryRun]
            /\ uploadRuns = [u \in UploadRuns |-> IdleUploadRun]

IdleAuth == /\ clock = 0
            /\ sessions = [t \in Tokens |-> NoSession]
            /\ logins = [t \in Tokens |-> NoLogin]
            /\ authOut = NoAuthCall

IdlePdf == /\ chunker = NoChunker
           /\ pdfRuns = NoRuns
           /\ upload = NoUpload

\* The retrieval of a collection with any content.
InitSearch ==
    /\ store \in Stores
    /\ IdleStore /\ IdleGov /\ IdleLoop /\ IdleAuth /\ IdleRace /\ IdlePdf
    /\ query = NoQuery
    /\ asmOut = NoGenerate

NextSearch == DoSearch \/ SearchReturn

SpecSearch == InitSearch /\ [][NextSearch]_vars

\* The document endpoints over a collection with any content.
InitDocs == InitSearch

NextDocs == ListDocuments \/ GetDocument \/ DeleteDocument \/ UploadDocument \/ DocReturn

SpecDocs == InitDocs /\ [][NextDocs]_vars

\* ------------------------------------------------------------------------
InitDelete == InitSearch

NextDelete == DoDeleteByDocument \/ DocReturn

SpecDelete == InitDelete /\ [][NextDelete]_vars

\* The governor's methods in any order, across midnights.
InitGov ==
    /\ store = {}
    /\ IdleStore /\ IdleGov /\ IdleLoop /\ IdleAuth /\ IdleRace /\ IdlePdf
    /\ query = NoQuery
    /\ asmOut = NoGenerate

NextGov == GovCanProcess \/ GovTrack \/ GovStats \/ GovReset \/ Tick

SpecGov == InitGov /\ [][NextGov]_vars

\* query_documents, one request after the other, over a collection with
\* at most one point, while the tracker's track_query is also called
\* directly and midnights pass.
InitQuery ==
    /\ store \in {s \in Stores : Cardinality(s) <= 1}
    /\ IdleStore /\ IdleGov /\ IdleLoop /\ IdleAuth /\ IdleRace /\ IdlePdf
    /\ query = NoQuery
    /\ asmOut = NoGenerate

NextQuery == QAdmit \/ QDocCount \/ QEmbed \/ QSearch \/ QReturn \/ GovTrack \/ Tick

SpecQuery == InitQuery /\ [][NextQuery]_vars

\* NThreads threads in track_query, today's record there or not.
InitRace ==
    /\ store = {}
    /\ IdleStore /\ IdleGov /\ IdleLoop /\ IdleAuth /\ IdlePdf
    /\ threads = [t \in RaceThreads |-> IdleThread]
    /\ heap = [o \in Objects |-> ZeroCounters]
    /\ slot \in {0, Existing}
    /\ query = NoQuery
    /\ asmOut = NoGenerate

NextRace ==
    \E t \in RaceThreads :
        RStart(t) \/ RCheck(t) \/ RCreate(t) \/ RFetch(t) \/ RRead(t) \/ RWrite(t)

SpecRace == InitRace /\ [][NextRace]_vars

\* generate_answer on any question, chunk list and reply of the LLM.
InitAsm == InitGov

NextAsm == DoGenerate \/ GenerateReturn

SpecAsm == InitAsm /\ [][NextAsm]_vars

\* _split_into_chunks on any text, max_tokens > 0 and overlap_tokens >= 0.
InitChunk ==
    /\ store = {}
    /\ IdleStore /\ IdleGov /\ IdleLoop /\ IdleAuth /\ IdleRace
    /\ query = NoQuery
    /\ asmOut = NoGenerate
    /\ pdfRuns = NoRuns
    /\ upload = NoUpload
    /\ \E text \in Texts, max_tokens \in 1..MaxTokens, overlap_tokens \in 0..MaxOverlap :
         chunker = StartChunker(text, max_tokens, overlap_tokens)

NextChunk ==
    ChunkBlank \/ ChunkLongSentence \/ ChunkOverflow \/ ChunkAppend \/ ChunkFinish

SpecChunk == InitChunk /\ [][NextChunk]_vars

\* process_pdf twice on one file.
InitPdf == InitGov

NextPdf == ProcessFile \/ ProcessAgain \/ ForgetRuns

SpecPdf == InitPdf /\ [][NextPdf]_vars

\* upload_document, one request after the other, over a collection of at
\* most two points.
InitUpload ==
    /\ store \in {s \in Stores : Cardinality(s) <= 2}
    /\ IdleStore /\ IdleGov /\ IdleLoop /\ IdleAuth /\ IdleRace /\ IdlePdf
    /\ query = NoQuery
    /\ asmOut = NoGenerate

NextUpload == UStart \/ UValidate \/ UProcess \/ UEmbed \/ UStore \/ UReturn

SpecUpload == InitUpload /\ [][NextUpload]_vars

\* Requests to POST /query arriving and run by the event loop in any order,
\* across midnights.
InitQueries == InitQuery

NextQueries == (\E q \in QueryRuns : QueryArrive(q) \/ QueryRun(q)) \/ Tick

SpecQueries == InitQueries /\ [][NextQueries]_vars

\* Requests to POST /documents, each suspended once at file.read(), over a
\* collection of at most two points.
InitUploads == InitUpload

NextUploads == \E u \in UploadRuns : UploadCheck(u) \/ UploadResume(u)

SpecUploads == InitUploads /\ [][NextUploads]_vars

\* The auth functions in any order as time passes.
InitAuth == InitGov

NextAuth ==
    LoginOk \/ LoginDenied \/ ValidateToken \/ Logout \/ GetUserIdFromToken \/ ClockAdvance

SpecAuth == InitAuth /\ [][NextAuth]_vars

====
